---- MODULE Spec2Model ----
(***************************************************************************)
(* Model of the go-jf-watch caching engine: the persistent download queue  *)
(* (internal/storage/bolt.go), the download manager with its dispatcher,   *)
(* worker pool and result processor (internal/downloader/manager.go) and   *)
(* the cache eviction (internal/storage/cache.go).                         *)
(***************************************************************************)
EXTENDS Integers, Sequences, FiniteSets, TLC

\* ------------------------------------------------------------------------
\* Bounds of the model
\* ------------------------------------------------------------------------
\* wall clock, in seconds (time.Now().Unix()); the clock stops at MaxTime
MaxTime == 1
\* largest number of AddJob calls in one run
MaxEnqueues == 2

\* the media ids of the catalogue; their order is the byte order of the strings
MediaIDs == {1, 2}
\* priorities the callers use: 1 (next episode), 5 (manual request)
Priorities == {1, 5}
\* the empty LocalPath; the LocalPath of a resolved job is its media id
NoPath == 0
\* what one GET of processJob can end in
Outcomes == {"ok", "status404", "status503"}
\* size of the upstream file of a media id, in MiB
FileSize(m) == 300 + 100 * m

VARIABLES
    config,     \* the configuration the components were constructed with
    queue,      \* bucket "queue": the stored QueueItems, one per key
    downloads,  \* bucket "downloads": the stored DownloadRecords, one per key
    files,      \* the disk: path -> size of the file there, 0 when there is none (in MiB;
                \* in bytes where the /stream handler serves ranges of it)
    jobs,       \* Manager.jobs
    results,    \* Manager.results
    worker,     \* per worker goroutine: where it is and the job or result it holds
    rp,         \* the result processor goroutine: where it is and the job it holds
    running,    \* Manager.running
    now,        \* the wall clock
    enqueued,   \* how many times AddJob has been called
    lastServed, \* per media id: the time /stream last served it from the cache, if ever
    cleanup,    \* the CleanupCache call in progress: where it is and its candidates
    limiter,    \* Manager.limiter: the token bucket made by New()
    transfer,   \* per worker: the body it is copying in processJob and its reader
    clock,      \* the time of day, the seconds gone by and the bytes the limited readers got
    life,       \* the manager's shutdown: context, channels, Stop() and the goroutines gone
    hub,        \* the WebSocket clients, their send channels and the updates discarded
    temp,       \* per worker: the temporary file atomic.WriteFile is filling
    http,       \* GET /stream/{id}: the last request and the response it got
    metadata,   \* bucket "metadata": the stored MediaMetadata, one per media id
    viewingHistory, \* Predictor.viewingHistory
    playback,   \* the last call of OnPlaybackStart: its media id and whether it failed
    history,    \* bucket "stats", key "history:{user}": the stored ViewingSessions
    lastSync,   \* Predictor.lastSync: <<>> for the zero time
    predicted   \* the last call of PredictNext: whether the store answered it, and what
                \* it returned

\* the state of the rate limiting
rateVars == <<limiter, transfer, clock>>

\* the state of the predictor
predictorVars == <<metadata, viewingHistory, playback, history, lastSync, predicted>>

\* the state the queue, the manager's goroutines and the cache do not touch
aux == <<rateVars, life, hub, temp, http, predictorVars>>

vars == <<config, queue, downloads, files, jobs, results, worker, rp, running, now, enqueued,
          lastServed, cleanup, aux>>

\* make(chan *DownloadJob, cfg.Workers*2), make(chan *DownloadResult, cfg.Workers*2)
ChanCap == config.Workers * 2
WorkerIDs == 1..config.Workers

\* ------------------------------------------------------------------------
\* The queue bucket (internal/storage/bolt.go)
\* ------------------------------------------------------------------------
\* "%s-%d" of two job ids compared as strings
IdLess(x, y) == x[1] < y[1] \/ (x[1] = y[1] /\ x[2] < y[2])

\* key "%03d:%d:%s" of priority, CreatedAt.Unix() and ID
QueueKey(item) == <<item.Priority, item.CreatedAt, item.ID>>

\* byte order of two keys, the order of the bucket's cursor
KeyLess(a, b) ==
    \/ a.Priority < b.Priority
    \/ a.Priority = b.Priority /\ a.CreatedAt < b.CreatedAt
    \/ a.Priority = b.Priority /\ a.CreatedAt = b.CreatedAt /\ IdLess(a.ID, b.ID)

\* the first item of a non-empty set of items in cursor order
FirstInOrder(S) == CHOOSE i \in S : \A j \in S \ {i} : KeyLess(i, j)

\* bucket.Put(key, data)
AddQueueItem(q, item) == {i \in q : QueueKey(i) # QueueKey(item)} \cup {item}

GetQueueItems(q, status) == {i \in q : i.Status = status}

\* deletes the first item in cursor order whose ID is itemID, if any
RemoveQueueItem(q, itemID) ==
    LET hit == {i \in q : i.ID = itemID}
    IN  IF hit = {} THEN q ELSE q \ {FirstInOrder(hit)}

\* update_queue(item): rewrites the stored item of that job id, under the key of
\* the item; an item whose job id is not stored is not found
UpdateQueueItem(q, item) ==
    IF \E i \in q : i.ID = item.ID THEN AddQueueItem(q, item) ELSE q

\* claim_next_queued(): the highest-ranked queued item, or none
HasNextQueueItem(q) == GetQueueItems(q, "queued") # {}
GetNextQueueItem(q) == FirstInOrder(GetQueueItems(q, "queued"))
\* the bucket after the claim: that item has gone to "downloading"
ClaimNextQueued(q) ==
    (q \ {GetNextQueueItem(q)}) \cup {[GetNextQueueItem(q) EXCEPT !.Status = "downloading"]}

\* ------------------------------------------------------------------------
\* The downloads bucket
\* ------------------------------------------------------------------------
\* a key built from the id of the job that downloaded the item
DownloadKeyByJob(rec) == <<rec.MediaType, rec.ID>>

\* key := fmt.Sprintf("%s:%s", record.MediaType, record.JellyfinID)
DownloadKey(rec) == <<rec.MediaType, rec.JellyfinID>>

AddDownloadRecord(d, rec) == {r \in d : DownloadKey(r) # DownloadKey(rec)} \cup {rec}

\* ------------------------------------------------------------------------
\* The download manager (internal/downloader/manager.go)
\* ------------------------------------------------------------------------
Idle == [state |-> "idle"]

\* rate.NewLimiter(bytesPerSecond, int(bytesPerSecond * 5)): a full bucket; rate
\* and tokens are in hundredths of a byte, burst is in bytes
NewLimiter(rate100) ==
    [tokens |-> ((rate100 * 5) \div 100) * 100, rate |-> rate100,
     burst |-> (rate100 * 5) \div 100]

\* cfg.RateLimitMbps * 1024 * 1024 / 8 bytes per second
FullRate100(cfg) == cfg.RateLimitMbps * 131072 * 100

\* RateLimitMbps * PeakLimitPercent / 100.0 * 1024 * 1024 / 8 bytes per second
PeakRate100(cfg) == cfg.RateLimitMbps * cfg.PeakLimitPercent * 131072

\* a worker that is not copying a body
NoTransfer ==
    [state |-> "none", priority |-> 0, reader |-> "body", own |-> NewLimiter(0), reads |-> 0]

\* the limiter of New(), no transfer under way, the time of day hhmm
InitRate(cfg, hhmm) ==
    /\ limiter = NewLimiter(FullRate100(cfg))
    /\ transfer = [w \in 1..cfg.Workers |-> NoTransfer]
    /\ clock = [hhmm |-> hhmm, elapsed |-> 0, consumed |-> 0]

\* the WebSocket clients that can connect
Clients == {"c1", "c2"}

\* no client is connected
InitHub == hub = [clients |-> {}, send |-> [c \in Clients |-> <<>>], dropped |-> {},
                  closed |-> {}, panicked |-> FALSE]

\* a worker that is not inside atomic.WriteFile
NoTemp == [state |-> "none", path |-> NoPath, written |-> 0]

\* no temporary file exists
InitTemp(cfg) == temp = [w \in 1..cfg.Workers |-> NoTemp]

\* r.Header.Get("Range") of a request without a Range header
NoRange == [unit |-> "none", parts |-> <<>>]

\* a response without a Content-Range header
NoContentRange == [kind |-> "none", start |-> 0, end |-> 0, size |-> 0]

\* what the handler has written before it writes anything; upstream is what
\* became of the request it proxied, if it did
NoResponse ==
    [status |-> 0, via |-> "none", upstream |-> "none", contentRange |-> NoContentRange,
     contentLength |-> 0, body |-> <<>>]

\* no request has reached /stream/{id}
InitHttp == http = [request |-> [method |-> "GET", mediaID |-> 0, range |-> NoRange],
                    response |-> NoResponse]

\* NewPredictor: an empty viewing history; no metadata has been stored
InitPredictor ==
    /\ metadata = {}
    /\ viewingHistory = <<>>
    /\ playback = [mediaID |-> 0, err |-> FALSE]
    /\ history = <<>>
    /\ lastSync = <<>>
    /\ predicted = [storeUp |-> TRUE, predictions |-> {}, err |-> FALSE]

\* m.ctx is live, both channels are open, Stop() has not been called
InitLife ==
    /\ InitHub
    /\ life = [ctxDone |-> FALSE, jobsClosed |-> FALSE, resultsClosed |-> FALSE,
            stop |-> "idle", exited |-> {}, panicked |-> FALSE]

\* the state New() leaves behind for a configuration
InitWith(cfg) ==
    /\ InitRate(cfg, 300)
    /\ InitTemp(cfg)
    /\ InitLife
    /\ InitHttp
    /\ InitPredictor
    /\ config = cfg
    /\ queue = {}
    /\ downloads = {}
    /\ files = [p \in MediaIDs |-> 0]
    /\ jobs = <<>>
    /\ results = <<>>
    /\ worker = [w \in 1..cfg.Workers |-> Idle]
    /\ rp = Idle
    /\ running = FALSE
    /\ now = 0
    /\ enqueued = 0
    /\ lastServed = [m \in MediaIDs |-> <<>>]
    /\ cleanup = Idle

\* download.workers, download.retry_attempts, cache.max_size_gb,
\* cache.eviction_threshold (in percent), download.rate_limit_mbps and
\* download.rate_limit_schedule: peak_hours as two <<hour, minute>> pairs
\* (<<>> when empty) and peak_limit_percent
Config(workers) ==
    [Workers |-> workers, RetryAttempts |-> 1, MaxSizeGB |-> 1, EvictionThreshold |-> 85,
     RateLimitMbps |-> 1, PeakHours |-> <<<<6, 0>>, <<23, 0>>>>, PeakLimitPercent |-> 25]

Init == InitWith(Config(1))

Tick ==
    /\ now < MaxTime
    /\ now' = now + 1
    /\ UNCHANGED <<aux, config, lastServed, cleanup, queue, downloads, files, jobs, results, worker, rp, running, enqueued>>

Start ==
    /\ ~running
    /\ running' = TRUE
    /\ UNCHANGED <<aux, config, lastServed, cleanup, queue, downloads, files, jobs, results, worker, rp, now, enqueued>>

\* &DownloadJob{...}: RetryCount is left at its zero value
NewJob(id, m, p, resolved, t) ==
    [ID |-> id, MediaID |-> m, Priority |-> p,
     URL |-> IF resolved THEN "url" ELSE "",
     LocalPath |-> IF resolved THEN m ELSE NoPath,
     RetryCount |-> 0, CreatedAt |-> t]

\* &storage.QueueItem{...} built from a job
QueueItemOf(job, status, retry, err) ==
    [ID |-> job.ID, MediaID |-> job.MediaID, Priority |-> job.Priority,
     URL |-> job.URL, LocalPath |-> job.LocalPath, CreatedAt |-> job.CreatedAt,
     Status |-> status, RetryCount |-> retry, ErrorMessage |-> err]

\* select { case m.jobs <- job: default: }
TrySend(ch, job) == IF Len(ch) < ChanCap THEN Append(ch, job) ELSE ch

AddJob(job) ==
    LET item == QueueItemOf(job, "queued", 0, "")
    IN  /\ enqueued < MaxEnqueues
        /\ enqueued' = enqueued + 1
        /\ queue' = AddQueueItem(queue, item)
        /\ jobs' = TrySend(jobs, job)
        /\ UNCHANGED <<aux, config, lastServed, cleanup, downloads, files, results, worker, rp, running, now>>

\* a caller that hands AddJob a job with its URL and LocalPath resolved
AddResolvedJob(mediaID, priority) ==
    AddJob(NewJob(<<mediaID, now>>, mediaID, priority, TRUE, now))

QueueDownload(mediaID, priority) ==
    /\ running
    /\ AddJob(NewJob(<<mediaID, now>>, mediaID, priority, FALSE, now))

\* one tick of queueProcessor
loadJobsFromQueue ==
    /\ running
    /\ HasNextQueueItem(queue)
    /\ LET queueItem == GetNextQueueItem(queue)
           claimed == ClaimNextQueued(queue)
           job == NewJob(queueItem.ID, queueItem.MediaID, queueItem.Priority,
                         queueItem.URL # "", queueItem.CreatedAt)
       IN  IF Len(jobs) < ChanCap
           THEN /\ jobs' = Append(jobs, job)
                /\ queue' = UpdateQueueItem(claimed,
                                [queueItem EXCEPT !.Status = "downloading"])
           ELSE /\ jobs' = jobs
                /\ queue' = claimed
    /\ UNCHANGED <<aux, config, lastServed, cleanup, downloads, files, results, worker, rp, running, now, enqueued>>

\* case job, ok := <-m.jobs
WorkerReceive(w) ==
    /\ running
    /\ worker[w].state = "idle"
    /\ jobs # <<>>
    /\ worker' = [worker EXCEPT ![w] = [state |-> "busy", job |-> Head(jobs), start |-> now]]
    /\ jobs' = Tail(jobs)
    /\ UNCHANGED <<aux, config, lastServed, cleanup, queue, downloads, files, results, rp, running, now, enqueued>>

\* what processJob can end in for a job
JobOutcomes(job) == IF job.URL = "" THEN {"request"} ELSE Outcomes

\* the DownloadResult of processJob
ResultOf(job, outcome, start) ==
    [Job |-> job, Success |-> outcome = "ok",
     BytesRead |-> IF outcome = "ok" THEN FileSize(job.MediaID) ELSE 0,
     Error |-> IF outcome = "ok" THEN "" ELSE outcome,
     CompletedAt |-> start]

\* processJob returns: atomic.WriteFile has put the whole file in place, or nothing
processJob(w) ==
    /\ worker[w].state = "busy"
    /\ \E outcome \in JobOutcomes(worker[w].job) :
          LET job == worker[w].job
          IN  /\ files' = IF outcome = "ok"
                          THEN [files EXCEPT ![job.LocalPath] = FileSize(job.MediaID)]
                          ELSE files
              /\ worker' = [worker EXCEPT ![w] =
                              [state |-> "send",
                               result |-> ResultOf(job, outcome, worker[w].start)]]
    /\ UNCHANGED <<aux, config, lastServed, cleanup, queue, downloads, jobs, results, rp, running, now, enqueued>>

\* case m.results <- result
WorkerSend(w) ==
    /\ worker[w].state = "send"
    /\ Len(results) < ChanCap
    /\ results' = Append(results, worker[w].result)
    /\ worker' = [worker EXCEPT ![w] = Idle]
    /\ UNCHANGED <<aux, config, lastServed, cleanup, queue, downloads, files, jobs, rp, running, now, enqueued>>

\* &storage.DownloadRecord{...} of handleResult
DownloadRecordOf(result) ==
    [ID |-> result.Job.ID, MediaType |-> "unknown", JellyfinID |-> result.Job.MediaID,
     LocalPath |-> result.Job.LocalPath, Size |-> result.BytesRead,
     LastAccessed |-> result.CompletedAt]

\* the queue item handleResult writes for a failed job
FailedItemOf(job, err) ==
    IF job.RetryCount < config.RetryAttempts
    THEN QueueItemOf(job, "queued", job.RetryCount + 1, err)
    ELSE QueueItemOf(job, "failed", job.RetryCount, err)

\* handleResult up to and including its first transaction; stored is whether
\* AddDownloadRecord's transaction commits
handleResult ==
    /\ running
    /\ rp.state = "idle"
    /\ results # <<>>
    /\ results' = Tail(results)
    /\ LET result == Head(results)
       IN  IF result.Success
           THEN /\ \E stored \in BOOLEAN :
                      downloads' = IF stored
                                   THEN AddDownloadRecord(downloads, DownloadRecordOf(result))
                                   ELSE downloads
                /\ rp' = [state |-> "remove", job |-> result.Job]
                /\ queue' = queue
           ELSE /\ queue' = UpdateQueueItem(queue, FailedItemOf(result.Job, result.Error))
                /\ rp' = Idle
                /\ downloads' = downloads
    /\ UNCHANGED <<aux, config, lastServed, cleanup, files, jobs, worker, running, now, enqueued>>

\* handleResult of a successful job, second transaction: RemoveQueueItem(job.ID)
handleResultRemove ==
    /\ rp.state = "remove"
    /\ queue' = RemoveQueueItem(queue, rp.job.ID)
    /\ rp' = Idle
    /\ UNCHANGED <<aux, config, lastServed, cleanup, downloads, files, jobs, results, worker, running, now, enqueued>>

Next ==
    \/ Tick
    \/ Start
    \/ \E m \in MediaIDs, p \in Priorities : AddResolvedJob(m, p)
    \/ \E m \in MediaIDs, p \in Priorities : QueueDownload(m, p)
    \/ loadJobsFromQueue
    \/ \E w \in WorkerIDs : WorkerReceive(w)
    \/ \E w \in WorkerIDs : processJob(w)
    \/ \E w \in WorkerIDs : WorkerSend(w)
    \/ handleResult
    \/ handleResultRemove

Spec == Init /\ [][Next]_vars

\* a client that asks for a media id only when the queue holds nothing of it
RequestOnce(mediaID) ==
    /\ \A i \in queue : i.MediaID # mediaID
    /\ AddResolvedJob(mediaID, 5)

\* the manager with a pool of two workers, serving such clients
InitPool == InitWith(Config(2))

NextPool ==
    \/ Start
    \/ \E m \in MediaIDs : RequestOnce(m)
    \/ loadJobsFromQueue
    \/ \E w \in WorkerIDs : WorkerReceive(w)
    \/ \E w \in WorkerIDs : processJob(w)
    \/ \E w \in WorkerIDs : WorkerSend(w)
    \/ handleResult
    \/ handleResultRemove

SpecPool == InitPool /\ [][NextPool]_vars

\* handleResult while the store is available: the transaction of
\* AddDownloadRecord commits
handleResultStored ==
    /\ handleResult
    /\ Head(results).Success
          => downloads' = AddDownloadRecord(downloads, DownloadRecordOf(Head(results)))

\* the manager with one worker and an available store, serving such clients
NextLive ==
    \/ Start
    \/ \E m \in MediaIDs : RequestOnce(m)
    \/ loadJobsFromQueue
    \/ \E w \in WorkerIDs : WorkerReceive(w)
    \/ \E w \in WorkerIDs : processJob(w)
    \/ \E w \in WorkerIDs : WorkerSend(w)
    \/ handleResultStored
    \/ handleResultRemove

\* the goroutines keep running: the ticker of the queue processor fires, a
\* worker that can receive, finish its attempt or send does so, and the result
\* processor handles the results it is sent
Fairness ==
    /\ WF_vars(Start)
    /\ WF_vars(loadJobsFromQueue)
    /\ \A w \in 1 .. 1 : /\ WF_vars(WorkerReceive(w))
                          /\ WF_vars(processJob(w))
                          /\ WF_vars(WorkerSend(w))
    /\ WF_vars(handleResultStored)
    /\ WF_vars(handleResultRemove)

SpecLive == Init /\ [][NextLive]_vars /\ Fairness

\* ------------------------------------------------------------------------
\* The cache manager (internal/storage/cache.go) and the /stream handler
\* ------------------------------------------------------------------------
\* os.Stat(path) finds a file
FileExists(f, path) == path \in DOMAIN f /\ f[path] > 0

\* the walk over the media directories: the sizes of all files there, in MiB
RECURSIVE WalkSize(_, _)
WalkSize(f, paths) ==
    IF paths = {} THEN 0
    ELSE LET path == CHOOSE x \in paths : TRUE
         IN  f[path] + WalkSize(f, paths \ {path})

GetCacheSize(f) == WalkSize(f, DOMAIN f)

\* the sum of the Size of all download records, in MiB
RECURSIVE GetCacheStats(_)
GetCacheStats(d) ==
    IF d = {} THEN 0
    ELSE LET record == CHOOSE r \in d : TRUE
         IN  record.Size + GetCacheStats(d \ {record})

\* the download record of a media id, as a set: empty when there is none
GetDownload(d, mediaID) == {r \in d : r.JellyfinID = mediaID}

isProtectedFromEviction(q, jellyfinID) ==
    \E item \in GetQueueItems(q, "downloading") : item.MediaID = jellyfinID

\* one entry per download record whose file exists
GetCacheEntries(d, f, q) ==
    {[Path |-> r.LocalPath, Size |-> f[r.LocalPath], LastAccessed |-> r.LastAccessed,
      MediaType |-> r.MediaType, JellyfinID |-> r.JellyfinID,
      Protected |-> isProtectedFromEviction(q, r.JellyfinID)] :
        r \in {x \in d : FileExists(f, x.LocalPath)}}

\* the eviction score of an entry at time t, times 864000: days since the last
\* access, plus 0.5 for a file above 1000 MiB, plus 0.1 for a movie
Score(entry, t) ==
    10 * (t - entry.LastAccessed)
    + (IF entry.Size > 1000 THEN 432000 ELSE 0)
    + (IF entry.MediaType = "movie" THEN 86400 ELSE 0)

\* sort.Slice by score, highest first: every order of S it can come back with
SortedByScore(S, t) ==
    {s \in [1..Cardinality(S) -> S] :
        /\ \A k, l \in 1..Cardinality(S) : k # l => s[k] # s[l]
        /\ \A k, l \in 1..Cardinality(S) : k < l => Score(s[k], t) >= Score(s[l], t)}

RECURSIVE PrefixSize(_, _)
PrefixSize(seq, k) == IF k = 0 THEN 0 ELSE seq[k].Size + PrefixSize(seq, k - 1)

\* the candidates up to and including the first one at which ten times their
\* total size reaches target10
TakeUntil(seq, target10) ==
    LET enough == {k \in 1..Len(seq) : 10 * PrefixSize(seq, k) >= target10}
    IN  IF enough = {} THEN seq
        ELSE SubSeq(seq, 1, CHOOSE k \in enough : \A l \in enough : k <= l)

\* the results GetEvictionCandidates(targetSize) can return at time t, where
\* target10 is ten times targetSize
GetEvictionCandidates(d, f, q, t, target10) ==
    {TakeUntil(s, target10) :
        s \in SortedByScore({e \in GetCacheEntries(d, f, q) : ~e.Protected}, t)}

\* the cache limit in MiB
MaxSizeMB == config.MaxSizeGB * 1024

\* ten times targetReduction: the excess over 70% of the limit, over 60% of it
\* when utilization has reached 95%
TargetReduction10(size) ==
    IF 100 * size >= 95 * MaxSizeMB
    THEN 10 * size - 6 * MaxSizeMB
    ELSE 10 * size - 7 * MaxSizeMB

\* CleanupCache up to the return of GetEvictionCandidates
CleanupCache ==
    /\ cleanup.state = "idle"
    /\ 100 * GetCacheSize(files) >= config.EvictionThreshold * MaxSizeMB
    /\ \E candidates \in GetEvictionCandidates(downloads, files, queue, now,
                                               TargetReduction10(GetCacheSize(files))) :
          /\ candidates # <<>>
          /\ cleanup' = [state |-> "evict", candidates |-> candidates]
    /\ UNCHANGED <<aux, config, queue, downloads, files, jobs, results, worker, rp, running, now,
                   enqueued, lastServed>>

\* one round of the loop of EvictItems
evictSingleItem ==
    /\ cleanup.state = "evict"
    /\ files' = [files EXCEPT ![Head(cleanup.candidates).Path] = 0]
    /\ cleanup' = IF Len(cleanup.candidates) = 1 THEN Idle
                  ELSE [cleanup EXCEPT !.candidates = Tail(cleanup.candidates)]
    /\ UNCHANGED <<aux, config, queue, downloads, jobs, results, worker, rp, running, now,
                   enqueued, lastServed>>

\* GET /stream/{id} of a media id whose record and file exist: served from the cache
handleVideoStream(mediaID) ==
    /\ \E r \in GetDownload(downloads, mediaID) : FileExists(files, r.LocalPath)
    /\ lastServed' = [lastServed EXCEPT ![mediaID] = <<now>>]
    /\ UNCHANGED <<aux, config, queue, downloads, files, jobs, results, worker, rp, running, now,
                   enqueued, cleanup>>

\* a cache that earlier runs have filled with every media id of the catalogue
InitCache ==
    /\ config = Config(1)
    /\ InitRate(Config(1), 300)
    /\ InitTemp(Config(1))
    /\ InitLife
    /\ InitHttp
    /\ InitPredictor
    /\ queue = {}
    /\ downloads = {[ID |-> <<m, 0>>, MediaType |-> "unknown", JellyfinID |-> m,
                     LocalPath |-> m, Size |-> FileSize(m), LastAccessed |-> 0] :
                        m \in MediaIDs}
    /\ files = [p \in MediaIDs |-> FileSize(p)]
    /\ jobs = <<>>
    /\ results = <<>>
    /\ worker = [w \in 1..1 |-> Idle]
    /\ rp = Idle
    /\ running = FALSE
    /\ now = 0
    /\ enqueued = 0
    /\ lastServed = [m \in MediaIDs |-> <<>>]
    /\ cleanup = Idle

NextCache ==
    \/ Start
    \/ \E m \in MediaIDs : RequestOnce(m)
    \/ loadJobsFromQueue
    \/ \E w \in WorkerIDs : WorkerReceive(w)
    \/ \E w \in WorkerIDs : processJob(w)
    \/ \E w \in WorkerIDs : WorkerSend(w)
    \/ handleResult
    \/ handleResultRemove
    \/ CleanupCache
    \/ evictSingleItem
    \/ \E m \in MediaIDs : handleVideoStream(m)

SpecCache == InitCache /\ [][NextCache]_vars

\* ------------------------------------------------------------------------
\* Rate limiting of the downloads (internal/downloader/manager.go)
\* ------------------------------------------------------------------------
\* seconds the model lets go by while bodies are copied
MaxSeconds == 2
\* reads it takes to copy one body
ReadsPerBody == 6
\* len(buf) of the reads of the copy loop under atomic.WriteFile: io.Copy's 32 KiB
BufLens == {32768}
\* the priorities of the jobs the workers copy: 0 (playing now), 3 (background)
JobPriorities == {0, 3}

\* "HH:MM" as hour * 100 + minute
parseTimeToHHMM(hm) == hm[1] * 100 + hm[2]

\* a comparison with the window that takes no account of a window that spans
\* midnight
isPeakWithinDay(cfg, hhmm) ==
    IF cfg.PeakHours = <<>> THEN FALSE
    ELSE /\ hhmm >= parseTimeToHHMM(cfg.PeakHours[1])
         /\ hhmm <= parseTimeToHHMM(cfg.PeakHours[2])

isCurrentlyPeakHours(cfg, hhmm) ==
    IF cfg.PeakHours = <<>> THEN FALSE
    ELSE LET peakStart == parseTimeToHHMM(cfg.PeakHours[1])
             peakEnd == parseTimeToHHMM(cfg.PeakHours[2])
         IN  IF peakStart > peakEnd
             THEN hhmm >= peakStart \/ hhmm <= peakEnd
             ELSE hhmm >= peakStart /\ hhmm <= peakEnd

\* a processJob that wraps every body in a rate-limited reader
UsesLimiterAlways(priority) == TRUE

\* which reader processJob puts on the body of a job of this priority
UsesLimiter(priority) == priority # 0

\* getCurrentRateLimit: a limiter of its own in peak hours, Manager.limiter otherwise
LimiterKind(cfg, hhmm) == IF isCurrentlyPeakHours(cfg, hhmm) THEN "own" ELSE "shared"

\* processJob from the response to the reader that wraps its body
createReader(w, priority) ==
    /\ transfer[w].state = "none"
    /\ transfer' = [transfer EXCEPT ![w] =
          [state |-> "reading", priority |-> priority,
           reader |-> IF UsesLimiter(priority)
                      THEN LimiterKind(config, clock.hhmm) ELSE "body",
           own |-> IF UsesLimiter(priority) /\ LimiterKind(config, clock.hhmm) = "own"
                   THEN NewLimiter(PeakRate100(config)) ELSE NewLimiter(0),
           reads |-> 0]]
    /\ UNCHANGED <<config, queue, downloads, files, jobs, results, worker, rp, running, now,
                   enqueued, lastServed, cleanup, limiter, clock, life, hub, temp, http, predictorVars>>

\* the bucket a limited reader waits on
BucketOf(t) == IF t.reader = "shared" THEN limiter ELSE t.own

\* the transfer after one more read
AfterRead(t) ==
    [t EXCEPT !.reads = t.reads + 1,
              !.state = IF t.reads + 1 = ReadsPerBody THEN "done" ELSE "reading"]

\* resp.Body.Read(buf) of a priority 0 job
ReadBody(w) ==
    /\ transfer[w].state = "reading"
    /\ transfer[w].reader = "body"
    /\ transfer' = [transfer EXCEPT ![w] = AfterRead(transfer[w])]
    /\ UNCHANGED <<config, queue, downloads, files, jobs, results, worker, rp, running, now,
                   enqueued, lastServed, cleanup, limiter, clock, life, hub, temp, http, predictorVars>>

\* rateLimitedReader.Read(buf): WaitN(ctx, len(buf)) fails at once when len(buf)
\* exceeds the burst, and otherwise returns when the bucket holds len(buf) tokens
Read(w, n) ==
    /\ transfer[w].state = "reading"
    /\ transfer[w].reader # "body"
    /\ LET t == transfer[w]
           bucket == BucketOf(t)
           taken == [bucket EXCEPT !.tokens = bucket.tokens - n * 100]
       IN  IF n > bucket.burst
           THEN /\ transfer' = [transfer EXCEPT ![w].state = "failed"]
                /\ UNCHANGED <<limiter, clock>>
           ELSE /\ bucket.tokens >= n * 100
                /\ transfer' = [transfer EXCEPT ![w] =
                      IF t.reader = "own" THEN [AfterRead(t) EXCEPT !.own = taken]
                      ELSE AfterRead(t)]
                /\ limiter' = IF t.reader = "shared" THEN taken ELSE limiter
                /\ clock' = [clock EXCEPT !.consumed = clock.consumed + n]
    /\ UNCHANGED <<config, queue, downloads, files, jobs, results, worker, rp, running, now,
                   enqueued, lastServed, cleanup, life, hub, temp, http, predictorVars>>

\* a bucket one second later
Refill(bucket) ==
    [bucket EXCEPT !.tokens = IF bucket.tokens + bucket.rate > bucket.burst * 100
                              THEN bucket.burst * 100
                              ELSE bucket.tokens + bucket.rate]

\* one second goes by
Second ==
    /\ clock.elapsed < MaxSeconds
    /\ clock' = [clock EXCEPT !.elapsed = clock.elapsed + 1]
    /\ limiter' = Refill(limiter)
    /\ transfer' = [w \in DOMAIN transfer |-> [transfer[w] EXCEPT !.own = Refill(transfer[w].own)]]
    /\ UNCHANGED <<config, queue, downloads, files, jobs, results, worker, rp, running, now,
                   enqueued, lastServed, cleanup, life, hub, temp, http, predictorVars>>

\* two workers copying bodies, by night or by day, with a peak limit of 4 or 25 percent
InitLimited ==
    \E percent \in {4, 25}, hhmm \in {300, 1200} :
        LET cfg == [Config(2) EXCEPT !.PeakLimitPercent = percent]
        IN  /\ config = cfg
            /\ InitRate(cfg, hhmm)
            /\ InitTemp(cfg)
            /\ InitLife
            /\ InitHttp
            /\ InitPredictor
            /\ queue = {}
            /\ downloads = {}
            /\ files = [p \in MediaIDs |-> 0]
            /\ jobs = <<>>
            /\ results = <<>>
            /\ worker = [w \in 1..cfg.Workers |-> Idle]
            /\ rp = Idle
            /\ running = TRUE
            /\ now = 0
            /\ enqueued = 0
            /\ lastServed = [m \in MediaIDs |-> <<>>]
            /\ cleanup = Idle

NextLimited ==
    \/ \E w \in WorkerIDs, priority \in JobPriorities : createReader(w, priority)
    \/ \E w \in WorkerIDs : ReadBody(w)
    \/ \E w \in WorkerIDs, n \in BufLens : Read(w, n)
    \/ Second

SpecLimited == InitLimited /\ [][NextLimited]_vars

\* peak windows that span midnight: 22:00-06:00 and 23:30-00:30
NightWindows == {<<<<22, 0>>, <<6, 0>>>>, <<<<23, 30>>, <<0, 30>>>>}

\* times of day, as hour * 100 + minute, around the edges of those windows
TimesOfDay == {0, 29, 31, 559, 601, 1200, 2159, 2200, 2329, 2330, 2359}

\* a worker copying bodies at some time of day under a window that spans midnight
InitPeak ==
    \E window \in NightWindows, hhmm \in TimesOfDay :
        LET cfg == [Config(1) EXCEPT !.PeakHours = window]
        IN  /\ config = cfg
            /\ InitRate(cfg, hhmm)
            /\ InitTemp(cfg)
            /\ InitLife
            /\ InitHttp
            /\ InitPredictor
            /\ queue = {}
            /\ downloads = {}
            /\ files = [p \in MediaIDs |-> 0]
            /\ jobs = <<>>
            /\ results = <<>>
            /\ worker = [w \in 1..cfg.Workers |-> Idle]
            /\ rp = Idle
            /\ running = TRUE
            /\ now = 0
            /\ enqueued = 0
            /\ lastServed = [m \in MediaIDs |-> <<>>]
            /\ cleanup = Idle

SpecPeak == InitPeak /\ [][NextLimited]_vars

\* ------------------------------------------------------------------------
\* Shutdown of the download manager (internal/downloader/manager.go)
\* ------------------------------------------------------------------------
\* the goroutines Start() adds to the wait group
Goroutines ==
    {<<"worker", w>> : w \in WorkerIDs} \cup {<<"resultProcessor", 0>>, <<"queueProcessor", 0>>}

\* a goroutine that has been started and has not returned, in a live process
Alive(g) == running /\ g \notin life.exited /\ ~life.panicked

\* a wait group that only the workers were added to
WaitGroupWorkersOnly == \A w \in WorkerIDs : <<"worker", w>> \in life.exited

\* wg.Wait() returns
WaitGroupDone == life.exited = Goroutines

\* the state the manager's code can still change
managerVars == <<queue, downloads, files, jobs, results, worker, rp, running>>

\* Start(), in a process that has not called Stop()
StartOnce == life.stop = "idle" /\ Start

\* AddJob while the jobs channel is open
AddJobOpen(mediaID) == ~life.jobsClosed /\ ~life.panicked /\ RequestOnce(mediaID)

\* AddJob after close(m.jobs): the item is stored, the send panics
AddJobClosed(mediaID) ==
    /\ life.jobsClosed /\ ~life.panicked
    /\ \A i \in queue : i.MediaID # mediaID
    /\ enqueued < MaxEnqueues
    /\ enqueued' = enqueued + 1
    /\ queue' = AddQueueItem(queue,
                    QueueItemOf(NewJob(<<mediaID, now>>, mediaID, 5, TRUE, now), "queued", 0, ""))
    /\ life' = [life EXCEPT !.panicked = TRUE]
    /\ UNCHANGED <<config, downloads, files, jobs, results, worker, rp, running, now,
                   lastServed, cleanup, rateVars, hub, temp, http, predictorVars>>

\* Stop() up to m.cancel()
StopCancel ==
    /\ running /\ life.stop = "idle" /\ ~life.panicked
    /\ life' = [life EXCEPT !.stop = "cancelled", !.ctxDone = TRUE]
    /\ UNCHANGED <<config, managerVars, now, enqueued, lastServed, cleanup, rateVars, hub, temp, http, predictorVars>>

\* close(m.jobs), after which Stop() sits in m.wg.Wait()
StopClose ==
    /\ life.stop = "cancelled" /\ ~life.panicked
    /\ life' = [life EXCEPT !.stop = "waiting", !.jobsClosed = TRUE]
    /\ UNCHANGED <<config, managerVars, now, enqueued, lastServed, cleanup, rateVars, hub, temp, http, predictorVars>>

\* m.wg.Wait() returns; close(m.results); m.running = false; Stop() returns
StopReturn ==
    /\ life.stop = "waiting" /\ ~life.panicked
    /\ WaitGroupDone
    /\ life' = [life EXCEPT !.stop = "returned", !.resultsClosed = TRUE]
    /\ running' = FALSE
    /\ UNCHANGED <<config, queue, downloads, files, jobs, results, worker, rp, now, enqueued,
                   lastServed, cleanup, rateVars, hub, temp, http, predictorVars>>

\* the worker's loop while it runs
WorkerStep(w) ==
    /\ Alive(<<"worker", w>>)
    /\ WorkerReceive(w) \/ processJob(w) \/ WorkerSend(w)

\* the worker returns: <-m.ctx.Done() in either select, or the jobs channel is
\* closed and drained; a result it could not send is dropped
WorkerExit(w) ==
    /\ Alive(<<"worker", w>>)
    /\ \/ worker[w].state \in {"idle", "send"} /\ life.ctxDone
       \/ worker[w].state = "idle" /\ life.jobsClosed /\ jobs = <<>>
    /\ worker' = [worker EXCEPT ![w] = Idle]
    /\ life' = [life EXCEPT !.exited = life.exited \cup {<<"worker", w>>}]
    /\ UNCHANGED <<config, queue, downloads, files, jobs, results, rp, running, now, enqueued,
                   lastServed, cleanup, rateVars, hub, temp, http, predictorVars>>

\* the result processor's loop while it runs
ResultProcessorStep ==
    /\ Alive(<<"resultProcessor", 0>>)
    /\ handleResult \/ handleResultRemove

\* the result processor returns on <-m.ctx.Done()
ResultProcessorExit ==
    /\ Alive(<<"resultProcessor", 0>>)
    /\ rp.state = "idle" /\ life.ctxDone
    /\ life' = [life EXCEPT !.exited = life.exited \cup {<<"resultProcessor", 0>>}]
    /\ UNCHANGED <<config, managerVars, now, enqueued, lastServed, cleanup, rateVars, hub, temp, http, predictorVars>>

\* a tick of queueProcessor while the jobs channel is open
QueueProcessorStep ==
    /\ Alive(<<"queueProcessor", 0>>)
    /\ ~life.jobsClosed
    /\ loadJobsFromQueue

\* a tick of queueProcessor after close(m.jobs): the item is claimed, and the
\* select either takes <-m.ctx.Done() or sends on the closed channel and panics
QueueProcessorClosed ==
    /\ Alive(<<"queueProcessor", 0>>)
    /\ life.jobsClosed
    /\ HasNextQueueItem(queue)
    /\ queue' = ClaimNextQueued(queue)
    /\ \E panics \in BOOLEAN : life' = [life EXCEPT !.panicked = panics]
    /\ UNCHANGED <<config, downloads, files, jobs, results, worker, rp, running, now, enqueued,
                   lastServed, cleanup, rateVars, hub, temp, http, predictorVars>>

\* queueProcessor returns on <-m.ctx.Done()
QueueProcessorExit ==
    /\ Alive(<<"queueProcessor", 0>>)
    /\ life.ctxDone
    /\ life' = [life EXCEPT !.exited = life.exited \cup {<<"queueProcessor", 0>>}]
    /\ UNCHANGED <<config, managerVars, now, enqueued, lastServed, cleanup, rateVars, hub, temp, http, predictorVars>>

\* requests for one media id are enough to keep both workers busy
NextStop ==
    \/ StartOnce
    \/ AddJobOpen(1)
    \/ AddJobClosed(1)
    \/ StopCancel
    \/ StopClose
    \/ StopReturn
    \/ \E w \in WorkerIDs : WorkerStep(w)
    \/ \E w \in WorkerIDs : WorkerExit(w)
    \/ ResultProcessorStep
    \/ ResultProcessorExit
    \/ QueueProcessorStep
    \/ QueueProcessorClosed
    \/ QueueProcessorExit

SpecStop == InitPool /\ [][NextStop]_vars

\* ------------------------------------------------------------------------
\* Progress updates to the WebSocket clients (internal/server)
\* ------------------------------------------------------------------------
\* capacity of a client's send channel in the model; the code makes it 256
SendCap == 2
\* the Status of the updates processJob reports
Statuses == {"downloading", "completed", "failed"}

\* the state outside the hub
notHub == <<config, queue, downloads, files, jobs, results, worker, rp, running, now, enqueued,
            lastServed, cleanup, rateVars, life, temp, http, predictorVars>>

\* select { case c.send <- update: default: } on a client's channel
SendOrDrop(ch, update) == IF Len(ch) < SendCap THEN Append(ch, update) ELSE ch

\* handleWebSocket: the client is registered and is sent the initial status
handleWebSocket(c) ==
    /\ c \notin hub.clients
    /\ hub' = [hub EXCEPT !.clients = hub.clients \cup {c},
                          !.closed = hub.closed \ {c},
                          !.send[c] = SendOrDrop(<<>>, [Status |-> "connected", MediaID |-> 0])]
    /\ UNCHANGED notHub

\* one update taken from the channel by writePump and written to the connection
writePump(c) ==
    /\ c \in hub.clients
    /\ hub.send[c] # <<>>
    /\ hub' = [hub EXCEPT !.send[c] = Tail(hub.send[c])]
    /\ UNCHANGED notHub

\* BroadcastProgressUpdate: dropped records what the default branch discarded;
\* the select on a closed channel takes the send and panics
BroadcastProgressUpdate(update) ==
    /\ hub' = IF hub.clients \cap hub.closed # {}
              THEN [hub EXCEPT !.panicked = TRUE]
              ELSE [hub EXCEPT
                      !.send = [c \in Clients |->
                                   IF c \in hub.clients THEN SendOrDrop(hub.send[c], update)
                                   ELSE hub.send[c]],
                      !.dropped = hub.dropped \cup
                                  {<<c, update.Status>> : c \in {x \in hub.clients :
                                                                    Len(hub.send[x]) >= SendCap}}]
    /\ UNCHANGED notHub

NextHub ==
    \/ \E c \in Clients : handleWebSocket(c)
    \/ \E c \in Clients : writePump(c)
    \/ \E status \in Statuses, m \in MediaIDs :
          BroadcastProgressUpdate([Status |-> status, MediaID |-> m])

SpecHub == Init /\ [][NextHub]_vars

\* readPump returns because the client has gone: its deferred function closes
\* the connection and the send channel
readPump(c) ==
    /\ c \in hub.clients
    /\ c \notin hub.closed
    /\ ~hub.panicked
    /\ hub' = [hub EXCEPT !.closed = hub.closed \cup {c}]
    /\ UNCHANGED notHub

\* writePump receives from the closed and drained channel and returns: its
\* deferred function unregisters the client
unregisterWSClient(c) ==
    /\ c \in hub.clients
    /\ c \in hub.closed
    /\ hub.send[c] = <<>>
    /\ ~hub.panicked
    /\ hub' = [hub EXCEPT !.clients = hub.clients \ {c}]
    /\ UNCHANGED notHub

\* clients that connect and disconnect while updates are broadcast
NextDisconnect ==
    \/ \E c \in Clients : handleWebSocket(c)
    \/ \E c \in Clients : writePump(c)
    \/ \E c \in Clients : readPump(c)
    \/ \E c \in Clients : unregisterWSClient(c)
    \/ \E status \in Statuses : BroadcastProgressUpdate([Status |-> status, MediaID |-> 1])

SpecDisconnect == Init /\ [][NextDisconnect]_vars

\* ------------------------------------------------------------------------
\* The write of a downloaded body to its path (atomic.WriteFile in processJob)
\* ------------------------------------------------------------------------
\* MiB one step of the copy adds to the file it writes
ChunkMiB == 100

\* the state outside the disk and the temporary files
notDisk == <<config, queue, downloads, jobs, results, worker, rp, running, now, enqueued,
             lastServed, cleanup, rateVars, life, hub, http, predictorVars>>

\* a write that fills the file at the path itself
WrittenInPlace(path) == path

\* where the copy of atomic.WriteFile puts the bytes meant for a path: into a
\* temporary file next to it, which NoPath stands for here
WrittenTo(path) == NoPath

\* a size grown by one chunk, up to the size of the whole body
Grown(size, whole) == IF size + ChunkMiB > whole THEN whole ELSE size + ChunkMiB

\* atomic.WriteFile(job.LocalPath, reader) creates its temporary file
BeginWrite(w, mediaID) ==
    /\ temp[w].state = "none"
    /\ temp' = [temp EXCEPT ![w] = [state |-> "copying", path |-> mediaID, written |-> 0]]
    /\ files' = IF WrittenTo(mediaID) = NoPath THEN files
                ELSE [files EXCEPT ![WrittenTo(mediaID)] = 0]
    /\ UNCHANGED notDisk

\* io.Copy moves one more chunk of the body
CopyChunk(w) ==
    /\ temp[w].state = "copying"
    /\ temp[w].written < FileSize(temp[w].path)
    /\ LET size == Grown(temp[w].written, FileSize(temp[w].path))
       IN  /\ temp' = [temp EXCEPT ![w].written = size]
           /\ files' = IF WrittenTo(temp[w].path) = NoPath THEN files
                       ELSE [files EXCEPT ![WrittenTo(temp[w].path)] = size]
    /\ UNCHANGED notDisk

\* the body ends in an error or the context is cancelled: the temporary file
\* is removed and WriteFile returns the error
FailWrite(w) ==
    /\ temp[w].state = "copying"
    /\ temp[w].written < FileSize(temp[w].path)
    /\ temp' = [temp EXCEPT ![w] = NoTemp]
    /\ UNCHANGED <<files, notDisk>>

\* the body is complete: the temporary file is renamed to the path
CommitWrite(w) ==
    /\ temp[w].state = "copying"
    /\ temp[w].written = FileSize(temp[w].path)
    /\ files' = [files EXCEPT ![temp[w].path] = temp[w].written]
    /\ temp' = [temp EXCEPT ![w] = NoTemp]
    /\ UNCHANGED notDisk

NextWrite ==
    \/ \E w \in WorkerIDs, m \in MediaIDs : BeginWrite(w, m)
    \/ \E w \in WorkerIDs : CopyChunk(w)
    \/ \E w \in WorkerIDs : FailWrite(w)
    \/ \E w \in WorkerIDs : CommitWrite(w)

SpecWrite == InitPool /\ [][NextWrite]_vars

\* ------------------------------------------------------------------------
\* The stream endpoint GET /stream/{id}: handleVideoStream, serveVideoFile,
\* parseRangeHeader and handleFallbackStream
\* ------------------------------------------------------------------------
\* the size in bytes of a cached file that /stream serves
StreamSize == 3

\* the numbers a Range header names: inside the file, its size and beyond it
RangeNumbers == 0..(StreamSize + 1)

\* the text on one side of the "-" of a range: nothing, a decimal number, or
\* text that strconv.ParseInt rejects
EmptyStr == [kind |-> "empty", val |-> 0]

JunkStr == [kind |-> "junk", val |-> 0]

NumberStr(n) == [kind |-> "int", val |-> n]

BoundStrs == {EmptyStr, JunkStr} \cup {NumberStr(n) : n \in RangeNumbers}

\* one comma-separated part of a range specification: the text before and
\* after its first "-", or a part without any "-"
RangePart(startStr, endStr) == [dash |-> TRUE, startStr |-> startStr, endStr |-> endStr]

NoDashPart == [dash |-> FALSE, startStr |-> EmptyStr, endStr |-> EmptyStr]

RangeParts == {RangePart(a, b) : a, b \in BoundStrs} \cup {NoDashPart}

\* the Range headers of the requests: none, "bytes=" with one part, "bytes="
\* with two parts, and a unit other than bytes
RangeHeaders ==
    {NoRange}
    \cup {[unit |-> "bytes", parts |-> <<p>>] : p \in RangeParts}
    \cup {[unit |-> "bytes", parts |-> <<p, q>>] :
            p, q \in {RangePart(NumberStr(0), NumberStr(0)), RangePart(NumberStr(1), EmptyStr)}}
    \cup {[unit |-> "items", parts |-> <<RangePart(NumberStr(0), NumberStr(0))>>]}

\* what the upstream does with the proxied request: it answers the bytes,
\* it cannot be reached, or it answers an error status
Upstreams == {"ok", "unreachable", "unavailable"}

\* the status of the upstream's answer
UpstreamStatus(rangeHeader, upstream) ==
    IF upstream = "unavailable" THEN 503
    ELSE IF rangeHeader = NoRange THEN 200 ELSE 206

\* the configuration of the upstream client, as validateJellyfin accepts it
Jellyfin == [ServerURL |-> "http://jellyfin:8096", APIKey |-> "key"]

\* GetStreamURL fails when the server URL or the API key is not configured
GetStreamURL(cfg) == [err |-> cfg.ServerURL = "" \/ cfg.APIKey = ""]

\* a part of parseRangeHeader that returns an error
InvalidRange == [err |-> TRUE, start |-> 0, end |-> 0]

\* "Validate range" and "Clamp end to file size" of parseRangeHeader
ValidatedRange(start, end, fileSize) ==
    IF start < 0 \/ end < 0 \/ start > end \/ start >= fileSize THEN InvalidRange
    ELSE [err |-> FALSE, start |-> start,
          end |-> IF end >= fileSize THEN fileSize - 1 ELSE end]

\* the body of the loop of parseRangeHeader, for one part
ParsedPart(part, fileSize) ==
    IF ~part.dash THEN InvalidRange
    ELSE IF part.startStr.kind = "empty"
    THEN IF part.endStr.kind # "int" THEN InvalidRange
         ELSE LET start == fileSize - part.endStr.val
              IN  ValidatedRange(IF start < 0 THEN 0 ELSE start, fileSize - 1, fileSize)
    ELSE IF part.startStr.kind # "int" THEN InvalidRange
    ELSE IF part.endStr.kind = "empty"
    THEN ValidatedRange(part.startStr.val, fileSize - 1, fileSize)
    ELSE IF part.endStr.kind # "int" THEN InvalidRange
    ELSE ValidatedRange(part.startStr.val, part.endStr.val, fileSize)

parseRangeHeader(rangeHeader, fileSize) ==
    LET parsed == [i \in 1..Len(rangeHeader.parts) |->
                        ParsedPart(rangeHeader.parts[i], fileSize)]
    IN  IF rangeHeader.unit # "bytes" \/ \E i \in DOMAIN parsed : parsed[i].err
        THEN [err |-> TRUE, ranges |-> <<>>]
        ELSE [err |-> FALSE,
              ranges |-> [i \in DOMAIN parsed |->
                            [start |-> parsed[i].start, end |-> parsed[i].end]]]

\* a length that leaves the last byte of the range out
RangeLengthExclusive(start, end) == end - start

\* contentLength := end - start + 1
RangeLength(start, end) == end - start + 1

\* the bytes of a file, each named by its offset
FileContent(size) == [i \in 1..size |-> i - 1]

\* file.Seek(start, io.SeekStart) and io.CopyN(w, file, n): the n bytes from
\* offset start, fewer when the file ends before
CopyN(content, start, n) ==
    SubSeq(content, start + 1, IF start + n > Len(content) THEN Len(content) ELSE start + n)

\* the response of serveVideoFile for a file of the disk; the JSON body of an
\* error response is left out
serveVideoFile(f, filePath, rangeHeader) ==
    LET fileSize == f[filePath]
        parsed == parseRangeHeader(rangeHeader, fileSize)
    IN  IF rangeHeader = NoRange
        THEN [NoResponse EXCEPT !.status = 200, !.via = "cache", !.contentLength = fileSize,
                                !.body = FileContent(fileSize)]
        ELSE IF parsed.err
        THEN [NoResponse EXCEPT !.status = 416, !.via = "cache", !.contentLength = fileSize,
                                !.contentRange = [kind |-> "unsatisfied", start |-> 0,
                                                  end |-> 0, size |-> fileSize]]
        ELSE IF Len(parsed.ranges) # 1
        THEN [NoResponse EXCEPT !.status = 416, !.via = "cache", !.contentLength = fileSize]
        ELSE LET start == parsed.ranges[1].start
                 end == parsed.ranges[1].end
                 contentLength == RangeLength(start, end)
             IN  [NoResponse EXCEPT
                    !.status = 206, !.via = "cache", !.contentLength = contentLength,
                    !.contentRange = [kind |-> "range", start |-> start, end |-> end,
                                      size |-> fileSize],
                    !.body = CopyN(FileContent(fileSize), start, contentLength)]

\* the response of handleFallbackStream; the headers and the body of the
\* upstream's answer are copied as they come and are left out
handleFallbackStream(rangeHeader, upstream) ==
    IF GetStreamURL(Jellyfin).err
    THEN [NoResponse EXCEPT !.status = 500, !.via = "proxy"]
    ELSE IF upstream = "unreachable"
    THEN [NoResponse EXCEPT !.status = 502, !.via = "proxy", !.upstream = upstream]
    ELSE [NoResponse EXCEPT !.status = UpstreamStatus(rangeHeader, upstream), !.via = "proxy",
                            !.upstream = upstream]

\* the state outside the stream endpoint's exchange and the time of the last serve
notStream == <<config, queue, downloads, files, jobs, results, worker, rp, running, now,
               enqueued, cleanup, rateVars, life, hub, temp, predictorVars>>

\* GET /stream/{id} with a Range header, while the upstream is in some state
GetStream(mediaID, rangeHeader, upstream) ==
    LET cached == {r \in GetDownload(downloads, mediaID) : FileExists(files, r.LocalPath)}
        request == [method |-> "GET", mediaID |-> mediaID, range |-> rangeHeader]
    IN  /\ http' = [request |-> request,
                    response |-> IF cached = {}
                                 THEN handleFallbackStream(rangeHeader, upstream)
                                 ELSE LET cachedItem == CHOOSE r \in cached : TRUE
                                      IN  serveVideoFile(files, cachedItem.LocalPath,
                                                         rangeHeader)]
        /\ lastServed' = IF cached = {} THEN lastServed
                         ELSE [lastServed EXCEPT ![mediaID] = <<now>>]
        /\ UNCHANGED notStream

\* a cache where each media id has a download record or not and a file on
\* disk or not: downloads that finished, records that were not stored and
\* files that eviction removed
InitStream ==
    /\ config = Config(1)
    /\ InitRate(Config(1), 300)
    /\ InitTemp(Config(1))
    /\ InitLife
    /\ InitHttp
    /\ InitPredictor
    /\ queue = {}
    /\ \E recorded \in SUBSET MediaIDs :
          downloads = {[ID |-> <<m, 0>>, MediaType |-> "unknown", JellyfinID |-> m,
                        LocalPath |-> m, Size |-> StreamSize, LastAccessed |-> 0] :
                          m \in recorded}
    /\ \E present \in SUBSET MediaIDs :
          files = [p \in MediaIDs |-> IF p \in present THEN StreamSize ELSE 0]
    /\ jobs = <<>>
    /\ results = <<>>
    /\ worker = [w \in 1..1 |-> Idle]
    /\ rp = Idle
    /\ running = FALSE
    /\ now = 0
    /\ enqueued = 0
    /\ lastServed = [m \in MediaIDs |-> <<>>]
    /\ cleanup = Idle

NextStream ==
    \/ \E m \in MediaIDs, h \in RangeHeaders, u \in Upstreams : GetStream(m, h, u)
    \/ Tick

SpecStream == InitStream /\ [][NextStream]_vars

\* the methods the router hands to handleVideoStream:
\* s.router.Get("/stream/{id}", s.handleVideoStream)
StreamMethods == {"GET"}

\* the router's answer to a method that the path is not registered for
MethodNotAllowed == [NoResponse EXCEPT !.status = 405, !.via = "router"]

\* serveVideoFile when r.Method is "HEAD": the headers are written, the file
\* is not copied
serveVideoFileHead(f, filePath, rangeHeader) ==
    [serveVideoFile(f, filePath, rangeHeader) EXCEPT !.body = <<>>]

\* HEAD /stream/{id} with a Range header, while the upstream is in some state
HeadStream(mediaID, rangeHeader, upstream) ==
    LET cached == {r \in GetDownload(downloads, mediaID) : FileExists(files, r.LocalPath)}
        request == [method |-> "HEAD", mediaID |-> mediaID, range |-> rangeHeader]
        routed == "HEAD" \in StreamMethods
    IN  /\ http' = [request |-> request,
                    response |-> IF ~routed THEN MethodNotAllowed
                                 ELSE IF cached = {}
                                 THEN handleFallbackStream(rangeHeader, upstream)
                                 ELSE LET cachedItem == CHOOSE r \in cached : TRUE
                                      IN  serveVideoFileHead(files, cachedItem.LocalPath,
                                                             rangeHeader)]
        /\ lastServed' = IF routed /\ cached # {}
                         THEN [lastServed EXCEPT ![mediaID] = <<now>>]
                         ELSE lastServed
        /\ UNCHANGED notStream

NextHead ==
    \/ \E m \in MediaIDs, h \in RangeHeaders, u \in Upstreams : HeadStream(m, h, u)

SpecHead == InitStream /\ [][NextHead]_vars

\* ------------------------------------------------------------------------
\* The predictor (internal/downloader/predictor.go) and the metadata bucket
\* ------------------------------------------------------------------------
\* calls of OnPlaybackStart that the viewing history has room for
MaxSessions == 1

\* the series of the catalogue, its seasons and the episodes of each season
SeriesIDs == {"A"}

Seasons == {1, 2}

Episodes == {1, 2, 3}

\* the media id of an episode, of the movie, and of an item without metadata
EpisodeID(season, episode) == 10 * season + episode

MovieID == 90

UnknownID == 99

\* &storage.MediaMetadata{...} of an episode and of a movie
EpisodeMetadata(seriesID, season, episode) ==
    [ID |-> EpisodeID(season, episode), JellyfinID |-> EpisodeID(season, episode),
     Type |-> "episode", SeriesID |-> seriesID, SeasonNumber |-> season,
     EpisodeNumber |-> episode]

MovieMetadata ==
    [ID |-> MovieID, JellyfinID |-> MovieID, Type |-> "movie", SeriesID |-> "",
     SeasonNumber |-> 0, EpisodeNumber |-> 0]

\* the upstream catalogue: what AddMediaMetadata can be called with
Catalogue ==
    {EpisodeMetadata(x, s, e) : x \in SeriesIDs, s \in Seasons, e \in Episodes}
    \cup {MovieMetadata}

\* the media ids a playback can start for
PlaybackIDs == {x.JellyfinID : x \in Catalogue} \cup {UnknownID}

\* bucket.Put under the key "meta:{jellyfin-id}"
AddMediaMetadata(md, record) ==
    {x \in md : x.JellyfinID # record.JellyfinID} \cup {record}

\* the metadata of a media id, as a set: empty when bucket.Get finds none
GetMediaMetadata(md, mediaID) == {x \in md : x.JellyfinID = mediaID}

\* the EpisodeInfo of the stored episodes of a series and season
EpisodeInfos(md, seriesID, season) ==
    {[ID |-> x.ID, Season |-> x.SeasonNumber, Episode |-> x.EpisodeNumber] :
        x \in {y \in md : /\ y.Type = "episode"
                          /\ y.SeriesID = seriesID
                          /\ y.SeasonNumber = season}}

\* sort.Slice by episode number
RECURSIVE SortedByEpisode(_)
SortedByEpisode(infos) ==
    IF infos = {} THEN <<>>
    ELSE LET first == CHOOSE x \in infos : \A y \in infos : x.Episode <= y.Episode
         IN  <<first>> \o SortedByEpisode(infos \ {first})

GetSeriesEpisodes(md, seriesID, season) == SortedByEpisode(EpisodeInfos(md, seriesID, season))

\* a download record names the media id; the ID of a record is the ID of
\* its job, which is no media id
IsMediaCached(d, mediaID) == \E record \in d : record.JellyfinID = mediaID

\* a search for the episode after the next one
EpisodeAfterNext(currentEpisode) == currentEpisode + 2

\* episode.Episode == currentEpisode+1
NextEpisode(currentEpisode) == currentEpisode + 1

\* the first loop of predictNextEpisodes: the QueueDownload calls it makes
NextEpisodeCalls(md, d, seriesID, currentSeason, currentEpisode) ==
    LET episodes == GetSeriesEpisodes(md, seriesID, currentSeason)
        found == {i \in DOMAIN episodes :
                    /\ episodes[i].Season = currentSeason
                    /\ episodes[i].Episode = NextEpisode(currentEpisode)}
    IN  IF found = {} THEN <<>>
        ELSE LET episode == episodes[CHOOSE i \in found : \A j \in found : i <= j]
             IN  IF IsMediaCached(d, episode.ID) THEN <<>>
                 ELSE <<[mediaID |-> episode.ID, priority |-> 1]>>

\* "Also check for next season if at end of current season"
NextSeasonCalls(md, d, seriesID, currentSeason, currentEpisode) ==
    LET episodes == GetSeriesEpisodes(md, seriesID, currentSeason)
        nextSeasonEpisodes == GetSeriesEpisodes(md, seriesID, currentSeason + 1)
    IN  IF /\ currentEpisode >= Len(episodes)
           /\ Len(nextSeasonEpisodes) > 0
           /\ ~IsMediaCached(d, nextSeasonEpisodes[1].ID)
        THEN <<[mediaID |-> nextSeasonEpisodes[1].ID, priority |-> 2]>>
        ELSE <<>>

\* the QueueDownload calls of predictNextEpisodes, in order
predictNextEpisodes(md, d, seriesID, currentSeason, currentEpisode) ==
    NextEpisodeCalls(md, d, seriesID, currentSeason, currentEpisode)
    \o NextSeasonCalls(md, d, seriesID, currentSeason, currentEpisode)

\* the queue bucket and the jobs channel after a sequence of QueueDownload
\* calls at a time
RECURSIVE QueueAll(_, _, _, _)
QueueAll(q, ch, calls, t) ==
    IF calls = <<>> THEN [queue |-> q, jobs |-> ch]
    ELSE LET job == NewJob(<<Head(calls).mediaID, t>>, Head(calls).mediaID,
                           Head(calls).priority, FALSE, t)
         IN  QueueAll(AddQueueItem(q, QueueItemOf(job, "queued", 0, "")),
                      TrySend(ch, job), Tail(calls), t)

\* the state outside the predictor, the queue bucket and the jobs channel
notPredictor == <<config, downloads, files, results, worker, rp, running, now, lastServed,
                  cleanup, rateVars, life, hub, temp, http>>

\* the catalogue sync stores the metadata of an item
StoreMetadata(record) ==
    /\ metadata' = AddMediaMetadata(metadata, record)
    /\ UNCHANGED <<viewingHistory, playback, history, lastSync, predicted, queue, jobs,
                   enqueued, notPredictor>>

\* OnPlaybackStart(ctx, mediaID), with the download manager set
OnPlaybackStart(mediaID) ==
    LET found == GetMediaMetadata(metadata, mediaID)
    IN  /\ Len(viewingHistory) < MaxSessions
        /\ playback' = [mediaID |-> mediaID, err |-> found = {}]
        /\ IF found = {}
           THEN UNCHANGED <<viewingHistory, queue, jobs, enqueued>>
           ELSE LET md == CHOOSE x \in found : TRUE
                    session == [MediaID |-> mediaID, StartTime |-> now,
                                MediaType |-> md.Type, SeriesID |-> md.SeriesID,
                                Season |-> md.SeasonNumber, Episode |-> md.EpisodeNumber,
                                Completed |-> FALSE]
                    calls == IF session.MediaType = "episode" /\ session.SeriesID # ""
                             THEN predictNextEpisodes(metadata, downloads, session.SeriesID,
                                                      session.Season, session.Episode)
                             ELSE <<>>
                    made == IF running THEN calls ELSE <<>>
                    after == QueueAll(queue, jobs, made, now)
                IN  /\ viewingHistory' = Append(viewingHistory, session)
                    /\ queue' = after.queue
                    /\ jobs' = after.jobs
                    /\ enqueued' = enqueued + Len(made)
        /\ UNCHANGED <<metadata, history, lastSync, predicted, notPredictor>>

\* a predictor and a started or stopped manager over a cache that holds
\* some of the episodes
InitPlayback ==
    /\ config = Config(1)
    /\ InitRate(Config(1), 300)
    /\ InitTemp(Config(1))
    /\ InitLife
    /\ InitHttp
    /\ InitPredictor
    /\ queue = {}
    /\ \E cached \in SUBSET {EpisodeID(1, 2), EpisodeID(2, 1)} :
          downloads = {[ID |-> <<m, 0>>, MediaType |-> "unknown", JellyfinID |-> m,
                        LocalPath |-> m, Size |-> 1, LastAccessed |-> 0] : m \in cached}
    /\ files = [p \in MediaIDs |-> 0]
    /\ jobs = <<>>
    /\ results = <<>>
    /\ worker = [w \in 1..1 |-> Idle]
    /\ rp = Idle
    /\ running \in BOOLEAN
    /\ now = 0
    /\ enqueued = 0
    /\ lastServed = [m \in MediaIDs |-> <<>>]
    /\ cleanup = Idle

NextPlayback ==
    \/ \E record \in Catalogue : StoreMetadata(record)
    \/ \E m \in PlaybackIDs : OnPlaybackStart(m)

SpecPlayback == InitPlayback /\ [][NextPlayback]_vars

\* ------------------------------------------------------------------------
\* The periodic prediction cycle: PredictNext and the enqueuing of its results
\* ------------------------------------------------------------------------
\* sessions the stored viewing history has room for
MaxHistory == 2

\* prediction.sync_interval in seconds, prediction.history_days and
\* prediction.min_confidence in hundredths
SyncInterval == 14400

HistoryDays == 30

MinConfidence == 70

\* seconds of a day
Day == 86400

\* fmt.Sprintf("%s_S%02dE%02d", seriesID, season, episode): an id made of
\* the series id and the numbers, which is the id of no upstream item
SyntheticID(seriesID, season, episode) == 1000 + EpisodeID(season, episode)

IsSynthetic(mediaID) == mediaID >= 1000

\* a session of the sync with the upstream's playback activity
SessionOf(md, startTime, completed) ==
    [MediaID |-> md.JellyfinID, StartTime |-> startTime, MediaType |-> md.Type,
     SeriesID |-> md.SeriesID, Season |-> md.SeasonNumber, Episode |-> md.EpisodeNumber,
     Completed |-> completed]

\* the stored sessions of the last days
GetViewingHistory(stored, days, t) ==
    LET recent == {i \in DOMAIN stored : stored[i].StartTime > t - days * Day}
        RECURSIVE Kept(_)
        Kept(i) == IF i > Len(stored) THEN <<>>
                   ELSE (IF i \in recent THEN <<stored[i]>> ELSE <<>>) \o Kept(i + 1)
    IN  Kept(1)

\* the ViewingProgress that predictContinueWatching builds for a series
SeriesProgress(h, seriesID) ==
    LET sessions == {i \in DOMAIN h : h[i].MediaType = "episode" /\ h[i].SeriesID = seriesID}
        Later(i, j) == \/ h[i].Season > h[j].Season
                       \/ h[i].Season = h[j].Season /\ h[i].Episode > h[j].Episode
        latest == CHOOSE i \in sessions : \A j \in sessions : ~Later(j, i)
        last == CHOOSE i \in sessions : \A j \in sessions : j <= i
    IN  [SeriesID |-> seriesID,
         LastSeason |-> h[latest].Season,
         LastEpisode |-> h[latest].Episode,
         LastWatched |-> h[last].StartTime,
         TotalWatched |-> Cardinality(sessions),
         CompletedEpisodes |-> Cardinality({i \in sessions : h[i].Completed})]

\* the series that the viewing history has episodes of
WatchedSeries(h) ==
    {h[i].SeriesID : i \in {j \in DOMAIN h : h[j].MediaType = "episode" /\ h[j].SeriesID # ""}}

\* calculateContinueConfidence, in hundredths
calculateContinueConfidence(progress, t) ==
    LET daysSince == (t - progress.LastWatched) \div Day
        recency == IF daysSince < 7 THEN 30 ELSE IF daysSince < 30 THEN 20 ELSE 0
        completion == (progress.CompletedEpisodes * 20) \div progress.TotalWatched
        many == IF progress.TotalWatched > 3 THEN 10 ELSE 0
        confidence == 50 + recency + completion + many
    IN  IF confidence > 100 THEN 100 ELSE confidence

\* the MediaID of the PredictionResult: fmt.Sprintf of the series id and the
\* numbers of the episode after the latest one watched
PredictedID(seriesID, season, episode) == SyntheticID(seriesID, season, episode)

\* the predictions of predictContinueWatching that pass filterPredictions
predictContinueWatching(h, t) ==
    {[MediaID |-> PredictedID(x, SeriesProgress(h, x).LastSeason,
                              SeriesProgress(h, x).LastEpisode + 1),
      Priority |-> 1] :
        x \in {y \in WatchedSeries(h) :
                 /\ SeriesProgress(h, y).LastWatched > t - 30 * Day
                 /\ SeriesProgress(h, y).CompletedEpisodes > 0
                 /\ calculateContinueConfidence(SeriesProgress(h, y), t) >= MinConfidence}}

\* the predictions as the QueueDownload calls of the cycle
RECURSIVE CallsOf(_)
CallsOf(predictions) ==
    IF predictions = {} THEN <<>>
    ELSE LET first == CHOOSE x \in predictions : \A y \in predictions : x.MediaID <= y.MediaID
         IN  <<[mediaID |-> first.MediaID, priority |-> first.Priority]>>
             \o CallsOf(predictions \ {first})

\* the state outside the predictor, the queue bucket, the jobs channel and the workers
notCycle == <<config, downloads, files, results, rp, running, now, lastServed, cleanup,
              rateVars, life, hub, temp, http>>

\* StoreViewingSession(userID, session): the sync stores a session of an item
StoreViewingSession(session) ==
    /\ Len(history) < MaxHistory
    /\ history' = Append(history, session)
    /\ UNCHANGED <<metadata, viewingHistory, playback, lastSync, predicted, queue, jobs,
                   enqueued, worker, notCycle>>

\* PredictNext(ctx, userID) at time t: the viewing history is refreshed from
\* the store when the last sync is older than SyncInterval, and a failure of
\* that refresh is returned as the error of the call
PredictNext(h, sync, stored, t, storeUp) ==
    LET due == sync = <<>> \/ t - sync[1] > SyncInterval
        refreshed == IF due THEN GetViewingHistory(stored, HistoryDays, t) ELSE h
    IN  IF due /\ ~storeUp
        THEN [viewingHistory |-> h, lastSync |-> sync, predictions |-> {}, err |-> TRUE]
        ELSE [viewingHistory |-> refreshed,
              lastSync |-> IF due THEN <<t>> ELSE sync,
              predictions |-> predictContinueWatching(refreshed, t), err |-> FALSE]

\* one prediction cycle: PredictNext, then, unless it failed, QueueDownload of
\* every prediction
CycleWith(storeUp) ==
    LET call == PredictNext(viewingHistory, lastSync, history, now, storeUp)
        calls == IF call.err THEN <<>> ELSE CallsOf(call.predictions)
        made == IF running THEN calls ELSE <<>>
        after == QueueAll(queue, jobs, made, now)
    IN  /\ enqueued < MaxEnqueues
        /\ viewingHistory' = call.viewingHistory
        /\ lastSync' = call.lastSync
        /\ predicted' = [storeUp |-> storeUp, predictions |-> call.predictions,
                         err |-> call.err]
        /\ queue' = after.queue
        /\ jobs' = after.jobs
        /\ enqueued' = enqueued + Len(made)
        /\ UNCHANGED <<metadata, playback, history, worker, notCycle>>

\* a prediction cycle while the store answers
PredictionCycle == CycleWith(TRUE)

\* a prediction cycle while the store does not answer
FailedPredictionCycle == CycleWith(FALSE)

NextCycle ==
    \/ \E record \in Catalogue, completed \in BOOLEAN :
          StoreViewingSession(SessionOf(record, now, completed))
    \/ PredictionCycle
    \/ \E w \in WorkerIDs : WorkerReceive(w)

SpecCycle == InitPlayback /\ [][NextCycle]_vars

\* the prediction cycles over a store that may fail to answer
NextPredict ==
    \/ Tick
    \/ \E record \in Catalogue, completed \in BOOLEAN :
          StoreViewingSession(SessionOf(record, now, completed))
    \/ PredictionCycle
    \/ FailedPredictionCycle

SpecPredict == InitPlayback /\ [][NextPredict]_vars

\* ------------------------------------------------------------------------
\* The queue endpoints of the API (internal/server/handlers.go)
\* ------------------------------------------------------------------------
\* the empty media_id of a request body
NoMediaID == 0
\* the values a client puts in the priority field
ApiPriorities == 0 .. 5

\* the JSON bodies of POST /api/queue/add: the priority field is absent (<<>>)
\* or holds one number; a body that is not well formed does not decode
QueueBodies ==
    [wellFormed : BOOLEAN, media_id : MediaIDs \cup {NoMediaID},
     priority : {<<>>} \cup {<<p>> : p \in ApiPriorities}]

\* json.Decode into AddToQueueRequest: an absent priority is the zero value
DecodeAddToQueueRequest(body) ==
    [MediaID |-> body.media_id,
     Priority |-> IF body.priority = <<>> THEN 0 ELSE body.priority[1]]

\* the priority handleQueueAdd hands to QueueDownload
EffectivePriority(req) == IF req.Priority = 0 THEN 5 ELSE req.Priority

\* the job ids a client can name in DELETE /api/queue/{id}
JobIDs == {<<m, t>> : m \in MediaIDs, t \in 0 .. MaxTime}

\* writeJSONResponse and writeErrorResponse
ApiResponse(status) == [NoResponse EXCEPT !.status = status, !.via = "api"]

\* the state the queue endpoints leave alone
notApi == <<config, downloads, files, results, worker, rp, running, now, lastServed,
            cleanup, rateVars, life, hub, temp, predictorVars>>

\* POST /api/queue/add
handleQueueAdd(body) ==
    LET req == DecodeAddToQueueRequest(body)
        priority == EffectivePriority(req)
        job == NewJob(<<req.MediaID, now>>, req.MediaID, priority, FALSE, now)
        accepted == body.wellFormed /\ req.MediaID # NoMediaID /\ running
        status == IF ~body.wellFormed \/ req.MediaID = NoMediaID THEN 400
                  ELSE IF ~running THEN 500 ELSE 201
    IN  /\ accepted => enqueued < MaxEnqueues
        /\ http' = [request |-> [method |-> "POST", path |-> "/api/queue/add",
                                 body |-> body],
                    response |-> ApiResponse(status)]
        /\ IF accepted
           THEN /\ enqueued' = enqueued + 1
                /\ queue' = AddQueueItem(queue, QueueItemOf(job, "queued", 0, ""))
                /\ jobs' = TrySend(jobs, job)
           ELSE UNCHANGED <<enqueued, queue, jobs>>
        /\ UNCHANGED notApi

\* DELETE /api/queue/{id}: the handler logs the id and answers
handleQueueRemove(queueID) ==
    /\ http' = [request |-> [method |-> "DELETE", path |-> "/api/queue/{id}",
                             id |-> queueID],
                response |-> ApiResponse(200)]
    /\ UNCHANGED <<enqueued, queue, jobs, notApi>>

NextApi ==
    \/ Tick
    \/ Start
    \/ \E body \in QueueBodies : handleQueueAdd(body)
    \/ \E queueID \in JobIDs : handleQueueRemove(queueID)

SpecApi == Init /\ [][NextApi]_vars

\* the numbers a JSON body can carry in its priority field, around the range 0..5
AnyPriorities == -1 .. 6

\* well-formed bodies with a media id and any such priority
AnyBodies ==
    [wellFormed : {TRUE}, media_id : MediaIDs, priority : {<<p>> : p \in AnyPriorities}]

\* the API serving clients that send any priority
NextApiAny ==
    \/ Tick
    \/ Start
    \/ \E body \in AnyBodies : handleQueueAdd(body)
    \/ \E queueID \in JobIDs : handleQueueRemove(queueID)

SpecApiAny == Init /\ [][NextApiAny]_vars

\* ------------------------------------------------------------------------
\* Downloads whose response carries no Content-Length
\* (internal/downloader/manager.go, processJob)
\* ------------------------------------------------------------------------
\* resp.ContentLength of a response whose length is unknown (chunked transfer)
UnknownLength == -1

\* the DownloadResult of a download that succeeded: BytesRead is
\* resp.ContentLength, not the number of bytes written
ChunkedResultOf(job, start) ==
    [ResultOf(job, "ok", start) EXCEPT !.BytesRead = UnknownLength]

\* processJob returns after a 200 response without Content-Length: the whole
\* body is in place at LocalPath
processJobChunked(w) ==
    /\ worker[w].state = "busy"
    /\ worker[w].job.URL # ""
    /\ LET job == worker[w].job
       IN  /\ files' = [files EXCEPT ![job.LocalPath] = FileSize(job.MediaID)]
           /\ worker' = [worker EXCEPT ![w] =
                           [state |-> "send",
                            result |-> ChunkedResultOf(job, worker[w].start)]]
    /\ UNCHANGED <<aux, config, lastServed, cleanup, queue, downloads, jobs, results, rp,
                   running, now, enqueued>>

\* the manager, its clients handing it resolved jobs, with an upstream that may
\* answer with or without Content-Length
NextRecord ==
    \/ Tick
    \/ Start
    \/ \E m \in MediaIDs : AddResolvedJob(m, 5)
    \/ loadJobsFromQueue
    \/ \E w \in WorkerIDs : WorkerReceive(w)
    \/ \E w \in WorkerIDs : processJob(w)
    \/ \E w \in WorkerIDs : processJobChunked(w)
    \/ \E w \in WorkerIDs : WorkerSend(w)
    \/ handleResult
    \/ handleResultRemove

SpecRecord == Init /\ [][NextRecord]_vars

\* ------------------------------------------------------------------------
\* The order of eviction (internal/storage/cache.go, GetEvictionCandidates)
\* ------------------------------------------------------------------------
\* sizes of cached files in MiB: one below and one above the 1000 MiB at which
\* the score of an entry grows by 0.5
SmallFile == 500
LargeFile == 1500
\* how long before the start of the run an item was last accessed, in seconds:
\* just now, an hour, a day
AccessAges == {0, 3600, 86400}

\* the download record of a cached media id
CachedRecord(m, size, age) ==
    [ID |-> <<m, 0>>, MediaType |-> "unknown", JellyfinID |-> m, LocalPath |-> m,
     Size |-> size, LastAccessed |-> 0 - age]

\* a cache of 2 GB that earlier runs have filled: each media id is absent or
\* cached with a small or a large file, last accessed some time ago
InitEvict ==
    /\ config = [Config(1) EXCEPT !.MaxSizeGB = 2]
    /\ InitRate(Config(1), 300)
    /\ InitTemp(Config(1))
    /\ InitLife
    /\ InitHttp
    /\ InitPredictor
    /\ queue = {}
    /\ files \in [MediaIDs -> {0, SmallFile, LargeFile}]
    /\ \E age \in [MediaIDs -> AccessAges] :
          downloads = {CachedRecord(m, files[m], age[m]) : m \in {x \in MediaIDs : files[x] > 0}}
    /\ jobs = <<>>
    /\ results = <<>>
    /\ worker = [w \in 1..1 |-> Idle]
    /\ rp = Idle
    /\ running = FALSE
    /\ now = 0
    /\ enqueued = 0
    /\ lastServed = [m \in MediaIDs |-> <<>>]
    /\ cleanup = Idle

NextEvict ==
    \/ Tick
    \/ CleanupCache
    \/ evictSingleItem
    \/ \E m \in MediaIDs : handleVideoStream(m)

SpecEvict == InitEvict /\ [][NextEvict]_vars

\* the valid values of eviction_threshold, in percent: validateCache accepts
\* every value above 0 and up to 1
Thresholds == {1, 40, 70, 85, 95, 100}

\* the cache of InitEvict under each of these thresholds
InitThreshold ==
    /\ config \in {[Config(1) EXCEPT !.MaxSizeGB = 2, !.EvictionThreshold = th] :
                      th \in Thresholds}
    /\ InitRate(Config(1), 300)
    /\ InitTemp(Config(1))
    /\ InitLife
    /\ InitHttp
    /\ InitPredictor
    /\ queue = {}
    /\ files \in [MediaIDs -> {0, SmallFile, LargeFile}]
    /\ \E age \in [MediaIDs -> AccessAges] :
          downloads = {CachedRecord(m, files[m], age[m]) : m \in {x \in MediaIDs : files[x] > 0}}
    /\ jobs = <<>>
    /\ results = <<>>
    /\ worker = [w \in 1..1 |-> Idle]
    /\ rp = Idle
    /\ running = FALSE
    /\ now = 0
    /\ enqueued = 0
    /\ lastServed = [m \in MediaIDs |-> <<>>]
    /\ cleanup = Idle

SpecThreshold == InitThreshold /\ [][NextEvict]_vars

\* ------------------------------------------------------------------------
\* Properties of the queue and of the download manager
\* ------------------------------------------------------------------------
\* the stored items of a media id that are queued or downloading
ActiveItems(q, m) == {i \in q : i.MediaID = m /\ i.Status \in {"queued", "downloading"}}

\* the handler steps, recognised by what only they do
IsAddJob == enqueued' = enqueued + 1
IsHandleResult == results # <<>> /\ results' = Tail(results)
IsRemove == rp.state = "remove" /\ rp'.state = "idle"
IsDispatch == Len(jobs') = Len(jobs) + 1

\* the job ids some goroutine or channel holds
RangeOf(seq) == {seq[k] : k \in 1..Len(seq)}
HeldIDs ==
    {j.ID : j \in RangeOf(jobs)}
    \cup {worker[w].job.ID : w \in {v \in WorkerIDs : worker[v].state = "busy"}}
    \cup {worker[w].result.Job.ID : w \in {v \in WorkerIDs : worker[v].state = "send"}}
    \cup {r.Job.ID : r \in RangeOf(results)}
    \cup (IF rp.state = "remove" THEN {rp.job.ID} ELSE {})

\* C1: at every instant the queue holds, for every media id, at most one item
\* whose status is queued or downloading.
C1_OneActiveItemPerMedia ==
    \A m \in MediaIDs : Cardinality(ActiveItems(queue, m)) <= 1

\* C2: a job id is being processed by at most one worker at any time, whether
\* the job reached the channel from AddJob or from the dispatcher.
C2_OneWorkerPerJob ==
    \A w1, w2 \in WorkerIDs :
        (w1 # w2 /\ worker[w1].state = "busy" /\ worker[w2].state = "busy")
            => worker[w1].job.ID # worker[w2].job.ID

\* C3: a job whose attempt failed with a 4xx status other than 429 is not
\* retried: handling its result leaves its queue item in status failed.
C3_PermanentErrorFails ==
    [][(IsHandleResult /\ Head(results).Error = "status404")
          => \A i \in queue' :
                QueueKey(i) = QueueKey(Head(results).Job) => i.Status = "failed"]_vars

\* C4: the stored retry count of a job grows by one with every failed attempt,
\* also when the job was dispatched again in between.
C4_RetryCountGrows ==
    [][(IsHandleResult /\ ~Head(results).Success)
          => \A i \in queue, j \in queue' :
                (QueueKey(i) = QueueKey(Head(results).Job) /\ QueueKey(j) = QueueKey(i)
                    /\ j.Status = "queued")
                    => j.RetryCount = i.RetryCount + 1]_vars

\* C5: enqueuing a media id that already has a queued or downloading item adds
\* no second item for it.
C5_DuplicateEnqueueAddsNoItem ==
    [][IsAddJob
          => \A m \in MediaIDs :
                ActiveItems(queue, m) # {}
                    => Cardinality(ActiveItems(queue', m)) = Cardinality(ActiveItems(queue, m))]_vars

\* C8: the queue item of a successfully downloaded job is deleted only when the
\* download record of its media id has been stored.
C8_RecordStoredBeforeItemDeleted ==
    [][(IsRemove /\ queue' # queue)
          => \E r \in downloads : r.JellyfinID = rp.job.MediaID]_vars

\* C9: a job enters the worker channel only when no queued item that still
\* waits in the store ranks strictly higher than it.
C9_DispatchHighestRanked ==
    [][IsDispatch
          => LET job == jobs'[Len(jobs')]
             IN  ~\E i \in GetQueueItems(queue, "queued") :
                    i.ID \notin HeldIDs /\ KeyLess(i, job)]_vars

\* ------------------------------------------------------------------------
\* Properties of the cache
\* ------------------------------------------------------------------------
\* how long after a /stream serve an item counts as recently served: 24 hours
ProtectionWindow == 86400

IsEvict == cleanup.state = "evict" /\ cleanup' # cleanup
RecentlyServed(m) == lastServed[m] # <<>> /\ now - lastServed[m][1] <= ProtectionWindow

\* no download is anywhere between its claim and the end of handleResult
NoDownloadInFlight ==
    /\ GetQueueItems(queue, "downloading") = {}
    /\ HeldIDs = {}

\* C6: no eviction step removes the file of a media id that has a queue item
\* in status downloading at that moment or that /stream served within the
\* protection window.
C6_ProtectedNeverEvicted ==
    [][IsEvict
          => LET m == Head(cleanup.candidates).JellyfinID
             IN  ~isProtectedFromEviction(queue, m) /\ ~RecentlyServed(m)]_vars

\* C7: when an eviction step has deleted the file of a media id, no download
\* record of that media id remains in the store.
C7_EvictionDeletesRecord ==
    [][IsEvict
          => GetDownload(downloads', Head(cleanup.candidates).JellyfinID) = {}]_vars

\* C10: while no download is in flight and no cleanup is running, the size
\* summed over the download records equals the size of the files on disk.
C10_StoreSizeMatchesDisk ==
    (NoDownloadInFlight /\ cleanup.state = "idle")
        => GetCacheStats(downloads) = GetCacheSize(files)

\* ------------------------------------------------------------------------
\* Properties of the rate limiting
\* ------------------------------------------------------------------------
\* the transfer of worker w takes a step
TransferStep(w) ==
    transfer[w].state = "reading"
        /\ (transfer'[w].reads # transfer[w].reads \/ transfer'[w].state # transfer[w].state)

\* no bucket holds the tokens for one more read of the transfer
Waiting(t) ==
    t.state = "reading" /\ t.reader # "body"
        /\ \A n \in BufLens : BucketOf(t).tokens < n * 100

C12_OneSharedBudget ==
    LET window == IF isCurrentlyPeakHours(config, clock.hhmm)
                  THEN NewLimiter(PeakRate100(config))
                  ELSE NewLimiter(FullRate100(config))
    IN  clock.consumed * 100 <= window.burst * 100 + window.rate * clock.elapsed

\* C13: no read of a rate-limited reader fails because its buffer is larger
\* than the burst of the bucket.
C13_LargeBufferNeverFails ==
    \A w \in WorkerIDs : transfer[w].state # "failed"

\* ------------------------------------------------------------------------
\* Properties of the shutdown
\* ------------------------------------------------------------------------
\* C14: when Stop() returns every worker, the dispatcher and the result
\* processor have returned and no worker holds a job; after that no job is
\* received, processed or handled and no queue item goes to downloading.
C14_StopWaitsForAll ==
    [][/\ life'.stop = "returned"
            => /\ life'.exited = Goroutines
               /\ \A w \in WorkerIDs : worker'[w].state = "idle"
               /\ rp'.state = "idle"
       /\ life.stop = "returned"
            => /\ UNCHANGED <<worker, rp, jobs, results, downloads, files>>
               /\ GetQueueItems(queue', "downloading") \subseteq
                      GetQueueItems(queue, "downloading")]_vars

\* Stop() has returned although a claimed job was in flight when it was called
C14_Witness ==
    /\ life.stop = "returned"
    /\ GetQueueItems(queue, "downloading") # {}

\* ------------------------------------------------------------------------
\* Properties of the progress updates
\* ------------------------------------------------------------------------
\* C15: no completed or failed update is discarded because a client's channel
\* is full.
C15_TerminalNeverDropped ==
    \A d \in hub.dropped : d[2] \notin {"completed", "failed"}

\* ------------------------------------------------------------------------
\* Properties of the files
\* ------------------------------------------------------------------------
\* C16: whoever opens a media path finds no file or the whole body of one
\* finished write, also while a write to that path is under way or has failed.
C16_NoPartialFile ==
    \A path \in DOMAIN files : files[path] = 0 \/ files[path] = FileSize(path)

\* a second download of a path is half done while the path holds the file of
\* the first, and the other worker's write has just failed midway
C16_Witness ==
    \E w, v \in WorkerIDs :
        /\ temp[w].state = "copying"
        /\ 0 < temp[w].written /\ temp[w].written < FileSize(temp[w].path)
        /\ files[temp[w].path] = FileSize(temp[w].path)
        /\ temp[v].state = "none"
        /\ \E other \in DOMAIN files : other # temp[w].path /\ files[other] = 0
\* ------------------------------------------------------------------------
\* Properties of the stream endpoint
\* ------------------------------------------------------------------------
\* the step answers a request to /stream/{id}
IsStream == http' # http

\* the media id has a download record whose file is not on disk
StaleRecord(d, f, m) ==
    /\ GetDownload(d, m) # {}
    /\ \A r \in GetDownload(d, m) : ~FileExists(f, r.LocalPath)

\* C17: a stream request that finds a download record whose file is missing
\* on disk deletes the record and is served through the upstream proxy
C17_StaleRecordDeleted ==
    [][\A m \in MediaIDs :
          (IsStream /\ http'.request.mediaID = m /\ StaleRecord(downloads, files, m))
              => (GetDownload(downloads', m) = {} /\ http'.response.via = "proxy")]_vars

\* the response is a successful serve of the cached file
ServedFromCache(response) == response.via = "cache" /\ response.status \in {200, 206}

\* C18: every successful serve of a cached file through the stream endpoint
\* sets the last-accessed time of the item's download record to the time of
\* the serve
C18_ServeTouchesRecord ==
    [][\A m \in MediaIDs :
          (IsStream /\ http'.request.mediaID = m /\ ServedFromCache(http'.response))
              => \A r \in GetDownload(downloads', m) : r.LastAccessed = now]_vars

\* the request was proxied and the upstream could not be reached or answered
\* an error
UpstreamFailed(response) ==
    response.via = "proxy" /\ response.upstream \in {"unreachable", "unavailable"}

\* C19: a request for an item that is not cached, made while the upstream is
\* unreachable or fails, is answered with 502
C19_UpstreamFailureIs502 == UpstreamFailed(http.response) => http.response.status = 502

\* the bytes file[s..e] of a file of a size
FileBytes(size, s, e) == [k \in 1..(e - s + 1) |-> FileContent(size)[s + k]]

\* C20: every 206 response to a single-range request on a cached file of
\* size total carries Content-Range: bytes s-e/total and Content-Length
\* e-s+1 with 0 <= s <= e <= total-1, and its body is exactly the bytes
\* file[s..e]
C20_PartialContentIsExact ==
    [][\A m \in MediaIDs :
          (/\ IsStream
           /\ http'.request.mediaID = m
           /\ Len(http'.request.range.parts) = 1
           /\ http'.response.via = "cache"
           /\ http'.response.status = 206)
              => \A r \in GetDownload(downloads, m) :
                    LET total == files[r.LocalPath]
                        header == http'.response.contentRange
                    IN  /\ header.kind = "range"
                        /\ header.size = total
                        /\ 0 <= header.start
                        /\ header.start <= header.end
                        /\ header.end <= total - 1
                        /\ http'.response.contentLength = header.end - header.start + 1
                        /\ http'.response.body = FileBytes(total, header.start, header.end)]_vars

\* "Range: bytes=0-0" on a cached file was answered 206 with exactly the
\* first byte of the file
C20_Witness ==
    /\ http.request.range = [unit |-> "bytes",
                              parts |-> <<RangePart(NumberStr(0), NumberStr(0))>>]
    /\ http.response.via = "cache"
    /\ http.response.status = 206
    /\ http.response.contentLength = 1
    /\ http.response.body = <<0>>

\* the step answers a HEAD request for a media id that is cached
IsHeadOfCached(m) ==
    /\ IsStream
    /\ http'.request.method = "HEAD"
    /\ http'.request.mediaID = m
    /\ \E r \in GetDownload(downloads, m) : FileExists(files, r.LocalPath)

\* C21: a HEAD request to the stream endpoint for a cached item is answered
\* with an empty body and with the status and the Content-Length that a GET
\* with the same Range header gets
C21_HeadMatchesGet ==
    [][\A m \in MediaIDs :
          IsHeadOfCached(m)
              => \A r \in GetDownload(downloads, m) :
                    LET get == serveVideoFile(files, r.LocalPath, http'.request.range)
                    IN  /\ http'.response.body = <<>>
                        /\ http'.response.status = get.status
                        /\ http'.response.contentLength = get.contentLength]_vars

\* ------------------------------------------------------------------------
\* Properties of the predictor
\* ------------------------------------------------------------------------
\* the step is an OnPlaybackStart of a media id that found its metadata,
\* while the download manager runs
IsPlaybackOf(m) ==
    /\ running
    /\ viewingHistory' # viewingHistory
    /\ playback'.mediaID = m

\* the items the step adds to the queue
NewItems == queue' \ queue

\* the metadata store holds the episode and no download record names it
StoredUncached(season, episode) ==
    /\ \E x \in metadata : /\ x.Type = "episode"
                           /\ x.SeasonNumber = season
                           /\ x.EpisodeNumber = episode
    /\ ~IsMediaCached(downloads, EpisodeID(season, episode))

LastOfSeason(season, episode) ==
    \A x \in metadata :
        (x.Type = "episode" /\ x.SeasonNumber = season) => x.EpisodeNumber <= episode

\* C23: OnPlaybackStart for episode E of season S enqueues episode 1 of
\* season S+1 at priority 2 if and only if E is the last episode of season S
\* and episode 1 of season S+1 is in the metadata store and is not cached
C23_NextSeasonOnlyAfterLast ==
    [][\A s \in Seasons, e \in Episodes :
          IsPlaybackOf(EpisodeID(s, e))
              => ((\E i \in NewItems : i.MediaID = EpisodeID(s + 1, 1) /\ i.Priority = 2)
                    <=> (LastOfSeason(s, e) /\ StoredUncached(s + 1, 1)))]_vars

\* C24: no media id that the continue-watching prediction synthesised
\* reaches a worker
C24_NoSyntheticIdAtWorker ==
    \A w \in WorkerIDs : worker[w].state = "busy" => ~IsSynthetic(worker[w].job.MediaID)

\* ------------------------------------------------------------------------
\* Properties of the queue endpoints
\* ------------------------------------------------------------------------
\* POST /api/queue/add with this media id and this priority field was answered
\* with a status
IsQueueAdd(m, field, status) ==
    /\ http' # http
    /\ http'.request.method = "POST"
    /\ http'.request.body.wellFormed
    /\ http'.request.body.media_id = m
    /\ http'.request.body.priority = field
    /\ http'.response.status = status

\* C25: a POST /api/queue/add with a non-empty media_id and a priority p in
\* 0..5 is answered 201 and leaves in the queue an item of that media id whose
\* priority is exactly p; an item gets priority 5 without being asked for it
\* only when the body has no priority field
C25_AddKeepsPriority ==
    [][\A m \in MediaIDs :
        /\ \A p \in ApiPriorities :
              running /\ http' # http /\ http'.request.method = "POST"
                      /\ http'.request.body.wellFormed
                      /\ http'.request.body.media_id = m
                      /\ http'.request.body.priority = <<p>>
              => /\ http'.response.status = 201
                 /\ \E item \in queue' : /\ item.ID = <<m, now>>
                                         /\ item.MediaID = m
                                         /\ item.Priority = p
        /\ IsQueueAdd(m, <<>>, 201)
              => \E item \in queue' : item.ID = <<m, now>> /\ item.Priority = 5]_vars

\* DELETE /api/queue/{id} for this job id was answered 200
IsQueueRemove(queueID) ==
    /\ http' # http
    /\ http'.request.method = "DELETE"
    /\ http'.request.id = queueID
    /\ http'.response.status = 200

\* C26: once DELETE /api/queue/{job-id} has answered 200, the queue holds no
\* item of that job id
C26_RemovedItemIsGone ==
    [][\A queueID \in JobIDs :
        IsQueueRemove(queueID) => \A item \in queue' : item.ID # queueID]_vars

\* ------------------------------------------------------------------------
\* Properties of the download records
\* ------------------------------------------------------------------------
\* C27: every download record of a successful download has a size that is
\* greater than 0 and is the size of the file at its LocalPath
C27_RecordSizeIsFileSize ==
    \A record \in downloads :
        /\ record.Size > 0
        /\ record.Size = files[record.LocalPath]

\* C28: at any time the downloads bucket holds at most one record per media
\* id, whatever MediaType the records were stored under
C28_OneRecordPerMedia ==
    \A r1, r2 \in downloads : r1.JellyfinID = r2.JellyfinID => r1 = r2

\* the manager was handed MaxEnqueues jobs, all of one media id and all
\* downloaded with success (nothing of another media id is on disk or in the
\* queue, no item was retried, nothing is left in the channels), the result
\* processor has just stored the record of the last one, and the bucket holds
\* that record alone
C28_Witness ==
    \E record \in downloads :
        /\ rp.state = "remove"
        /\ rp.job.ID = record.ID
        /\ record.ID = <<record.JellyfinID, MaxTime>>
        /\ enqueued = MaxEnqueues
        /\ jobs = <<>>
        /\ results = <<>>
        /\ \A w \in WorkerIDs : worker[w].state = "idle"
        /\ \A item \in queue : /\ item.ID = record.ID
                               /\ item.RetryCount = 0
                               /\ item.Status # "failed"
        /\ \A m \in MediaIDs \ {record.JellyfinID} : files[m] = 0
        /\ downloads = {record}

\* ------------------------------------------------------------------------
\* Properties of the order of eviction
\* ------------------------------------------------------------------------
\* the cleanup has just chosen the items it evicts
IsEvictionChoice == cleanup.state = "idle" /\ cleanup'.state = "evict"

\* the entries of the cache that are not protected
Unprotected == {e \in GetCacheEntries(downloads, files, queue) : ~e.Protected}

\* C29: eviction takes the unprotected items in the order of their age since
\* the last access: no unprotected item is chosen for eviction while another
\* unprotected item, last accessed earlier, is kept
C29_OldestEvictedFirst ==
    [][IsEvictionChoice =>
        \A k \in 1 .. Len(cleanup'.candidates) :
            \A kept \in Unprotected :
                kept.LastAccessed < cleanup'.candidates[k].LastAccessed
                => \E l \in 1 .. Len(cleanup'.candidates) :
                      cleanup'.candidates[l].Path = kept.Path]_vars

\* ------------------------------------------------------------------------
\* Properties of the viewing history
\* ------------------------------------------------------------------------
\* OnPlaybackStart has been called for a media id
IsPlaybackStart(m) == playback' # playback /\ playback'.mediaID = m

\* C30: every OnPlaybackStart of a media id appends to the viewing history a
\* session of that media id whose StartTime is the time of the call, whether
\* the metadata lookup that follows finds the item or not and whatever the
\* type of the item
C30_PlaybackAlwaysRecorded ==
    [][\A m \in PlaybackIDs :
        IsPlaybackStart(m)
        => /\ Len(viewingHistory') = Len(viewingHistory) + 1
           /\ viewingHistory'[Len(viewingHistory')].MediaID = m
           /\ viewingHistory'[Len(viewingHistory')].StartTime = now]_vars

\* ------------------------------------------------------------------------
\* Properties of the prediction cycle
\* ------------------------------------------------------------------------
\* C31: a prediction cycle in which the store does not answer returns an empty
\* result and no error
C31_FailureGivesEmptyResult ==
    ~predicted.storeUp => predicted.predictions = {} /\ ~predicted.err

\* ------------------------------------------------------------------------
\* Properties of the peak window
\* ------------------------------------------------------------------------
\* the configured window starts later in the day than it ends
SpansMidnight ==
    parseTimeToHHMM(config.PeakHours[1]) > parseTimeToHHMM(config.PeakHours[2])

\* a download that the rate limiting applies to has its reader
Limited(w) == transfer[w].state # "none" /\ transfer[w].priority # 0

\* C32: under a peak window whose start is later than its end, a download
\* that starts at a time of day in [start, 24:00) or in [00:00, end) is
\* throttled to the peak rate, and one that starts strictly between end and
\* start reads at the full rate
C32_MidnightWindowHonoured ==
    LET peakStart == parseTimeToHHMM(config.PeakHours[1])
        peakEnd == parseTimeToHHMM(config.PeakHours[2])
    IN  SpansMidnight =>
          \A w \in WorkerIDs :
              Limited(w) =>
                 /\ (clock.hhmm >= peakStart \/ clock.hhmm < peakEnd)
                       => /\ transfer[w].reader = "own"
                          /\ transfer[w].own.rate = PeakRate100(config)
                 /\ (peakEnd < clock.hhmm /\ clock.hhmm < peakStart)
                       => transfer[w].reader = "shared"

\* a download that started after midnight, before the end of a window that
\* spans midnight, has been copied to its end at the peak rate
C32_Witness ==
    /\ SpansMidnight
    /\ clock.hhmm < parseTimeToHHMM(config.PeakHours[2])
    /\ \E w \in WorkerIDs :
          /\ Limited(w)
          /\ transfer[w].state = "done"
          /\ transfer[w].reader = "own"

\* ------------------------------------------------------------------------
\* Properties of the jobs channel at shutdown
\* ------------------------------------------------------------------------
\* C33: no goroutine sends on the jobs channel after Stop() has closed it:
\* neither an AddJob that races with or follows Stop() nor a tick of the
\* queue processor during the shutdown panics on the closed channel
C33_NoSendOnClosedJobs == life.jobsClosed => ~life.panicked

\* ------------------------------------------------------------------------
\* Properties of the disconnect of a WebSocket client
\* ------------------------------------------------------------------------
\* C34: a broadcast never sends on the send channel of a client after the
\* client's disconnect has closed it, so no broadcast panics on a closed
\* channel
C34_ClosedClientNotBroadcastTo == ~hub.panicked

\* ------------------------------------------------------------------------
\* Properties of the status downloading
\* ------------------------------------------------------------------------
\* the job of this id is in the jobs channel, held by a worker, or its result
\* is in the results channel or held by the result processor
InProcess(id) ==
    \/ \E k \in 1 .. Len(jobs) : jobs[k].ID = id
    \/ \E w \in WorkerIDs : worker[w].state = "busy" /\ worker[w].job.ID = id
    \/ \E w \in WorkerIDs : worker[w].state = "send" /\ worker[w].result.Job.ID = id
    \/ \E k \in 1 .. Len(results) : results[k].Job.ID = id
    \/ rp.state = "remove" /\ rp.job.ID = id

\* C35: a queue item has the status downloading only while its job is being
\* processed: also after Stop() has returned, and when the jobs channel was
\* full at the claim, no item is left downloading with nothing processing it
C35_DownloadingIsInProcess ==
    \A item \in GetQueueItems(queue, "downloading") : InProcess(item.ID)

\* ------------------------------------------------------------------------
\* Properties of the progress of the queue
\* ------------------------------------------------------------------------
\* the queue holds an item of this media id in this status
HasItem(m, status) == \E item \in queue : item.MediaID = m /\ item.Status = status

\* the download of this media id has ended: its item has left the queue and
\* its record is stored, or its item is failed
Ended(m) ==
    \/ (\A item \in queue : item.MediaID # m) /\ GetDownload(downloads, m) # {}
    \/ HasItem(m, "failed")

\* C36: while the manager keeps running, every queued item is eventually
\* dispatched and its job eventually ends: removed from the queue with its
\* download record stored, or failed
C36_QueuedItemEnds ==
    \A m \in MediaIDs : HasItem(m, "queued") ~> Ended(m)

\* ------------------------------------------------------------------------
\* Properties of the stored priorities
\* ------------------------------------------------------------------------
\* C37: every item in the queue bucket has a priority in 0..5, whatever
\* priority the request that enqueued it carried
C37_StoredPriorityInRange ==
    \A item \in queue : item.Priority \in 0 .. 5

\* ------------------------------------------------------------------------
\* Properties of the job ids
\* ------------------------------------------------------------------------
\* C38: distinct enqueue operations get distinct job ids, so no two items of
\* the queue bucket have the same job id, also when a media id is enqueued
\* twice within a second or with two priorities
C38_JobIdsUnique ==
    \A i, j \in queue : i.ID = j.ID => i = j

\* ------------------------------------------------------------------------
\* Properties of the cleanup target
\* ------------------------------------------------------------------------
\* CleanupCache has chosen the items it evicts
ChoosesCandidates == cleanup.state = "idle" /\ cleanup'.state = "evict"

\* C39: under every valid threshold, a cleanup that runs evicts unprotected
\* items until utilization is at most 70% of the limit (60% when it had reached
\* 95%) or no unprotected item is left: the items it evicts bring the cache to
\* the target unless they are all there are, and without the last of them the
\* cache is still above the target
C39_EvictsUntilTarget ==
    [][ChoosesCandidates =>
          LET target10 == TargetReduction10(GetCacheSize(files))
              chosen == cleanup'.candidates
              unprotected == {e \in GetCacheEntries(downloads, files, queue) : ~e.Protected}
          IN  /\ \/ 10 * PrefixSize(chosen, Len(chosen)) >= target10
                 \/ Len(chosen) = Cardinality(unprotected)
              /\ 10 * PrefixSize(chosen, Len(chosen) - 1) < target10]_vars

\* ------------------------------------------------------------------------
\* Properties of the download of the playing item
\* ------------------------------------------------------------------------
\* C40: when playback of an item that is not cached starts, on_playback_start
\* enqueues a download of that item at priority 0, next to the next episode
C40_PlayingItemAtPriorityZero ==
    [][\A m \in PlaybackIDs :
          IsPlaybackOf(m) /\ GetDownload(downloads, m) = {}
              => \E i \in queue' : i.MediaID = m /\ i.Priority = 0]_vars

====
